---- MODULE Spec2Model ----
(***************************************************************************)
(* Copy-on-write automaton handles (mutable-fst.h), the eager rational     *)
(* operators Closure (closure.h) and Invert (invert.h), and the lazy       *)
(* InvertFst view, as one state machine over a small heap of reference     *)
(* counted backing stores.                                                 *)
(***************************************************************************)
EXTENDS Integers, Sequences, FiniteSets, TLC

VARIABLES
    impl,      \* handle -> id of the backing store it references (impl_)
    store,     \* id of a live backing store -> its content (the Impl object)
    origin,    \* handle -> the handle it was copied from, and how
    views,     \* the lazy InvertFst objects constructed so far
    first,     \* the heap [impl, store] of the initial state
    before,    \* the heap [impl, store] as it was before the last operation
    calls,     \* the operations performed so far: name, handle and arguments
    cursor,    \* the MutableArcIterator in use, if any
    io,        \* the stream, the file or the weight codec in use, if any
    symtab,    \* the symbol table a caller owns and the one it borrowed, if any
    threads    \* thread -> the mutating call it is in the middle of, if any

vars == <<impl, store, origin, views, first, before, calls, cursor, io, symtab, threads>>

\* ------------------------------------------------------------------ bounds
MaxStates == 2
MaxArcs == 1
MaxHandles == 2
MaxOps == 2
MaxThreadOps == 2
MaxReads == 6
MaxCursorOps == 3
MaxCodecOps == 3
MaxSymbolOps == 4
MaxViewOps == 3
MaxViews == 2
FamArcs == 2

\* --------------------------------------------------------------- constants
kNoStateId == -1

\* Weight algebra (external collaborator): the tropical semiring over the
\* naturals.  Zero is +infinity, encoded as -1; One is 0; Times is +; Plus is min.
Zero == -1
One == 0
Times(a, b) == IF a = Zero \/ b = Zero THEN Zero ELSE a + b
Plus(a, b) == IF a = Zero THEN b ELSE IF b = Zero THEN a ELSE IF a <= b THEN a ELSE b

\* Weights and labels the operations draw their arguments from.
Weights == {Zero, One, 2}
ArcWeights == {One, 2}
LabelPairs == {<<1, 1>>, <<1, 2>>}

\* Property bits.  kError is the one extrinsic bit; the others are intrinsic.
kExpanded == "kExpanded"
kMutable == "kMutable"
kError == "kError"
kAcceptor == "kAcceptor"
kAcyclic == "kAcyclic"
kILabelSorted == "kILabelSorted"
kOLabelSorted == "kOLabelSorted"
kFstProperties ==
    {kExpanded, kMutable, kError, kAcceptor, kAcyclic, kILabelSorted, kOLabelSorted}
kExtrinsicProperties == {kError}
kStaticProperties == {kExpanded, kMutable}
kNullProperties == {kAcceptor, kAcyclic, kILabelSorted, kOLabelSorted}

\* Symbol tables are values; NoSymbols is the absent table (nullptr).
NoSymbols == "nullptr"
SymbolTables == {"syms_x", "syms_y"}

MakeArc(il, ol, w, ns) == [ilabel |-> il, olabel |-> ol, weight |-> w, nextstate |-> ns]

\* ------------------------------------------------- the backing store (Impl)
\* A state of the store: its final weight and its ordered arc list.
NewState == [final |-> Zero, arcs |-> <<>>]

\* A default constructed Impl: no states, no start, no symbol tables.
EmptyImpl ==
    [start |-> kNoStateId, states |-> <<>>, isymbols |-> NoSymbols,
     osymbols |-> NoSymbols, properties |-> kNullProperties \cup kStaticProperties]

\* Impl(const Fst &): the deep copy made by std::make_shared<Impl>(*this).
ImplCopy(m) ==
    [start |-> m.start, states |-> m.states,
     isymbols |-> m.isymbols, osymbols |-> m.osymbols, properties |-> m.properties]

\* State ids are 0-based; the sequence m.states holds state s at index s + 1.
ImplNumStates(m) == Len(m.states)
ImplStateIds(m) == 0 .. (Len(m.states) - 1)
ImplFinal(m, s) == m.states[s + 1].final
ImplArcs(m, s) == m.states[s + 1].arcs
ImplProperties(m, mask) == m.properties \cap mask

ImplSetStart(m, s) == [m EXCEPT !.start = s]

ImplSetFinal(m, s, weight) == [m EXCEPT !.states[s + 1].final = weight]

\* Merges only the masked bits into the cached bitset.
ImplSetProperties(m, props, mask) ==
    [m EXCEPT !.properties = (m.properties \ mask) \cup (props \cap mask)]

ImplAddState(m) == [m EXCEPT !.states = Append(m.states, NewState)]

RECURSIVE ImplAddStates(_, _)
ImplAddStates(m, n) == IF n = 0 THEN m ELSE ImplAddStates(ImplAddState(m), n - 1)

\* Appends the arc; an arc with different labels clears kAcceptor, and any new
\* arc clears kAcyclic and the sortedness bits (they become unknown).
ImplAddArc(m, s, arc) ==
    [m EXCEPT !.states[s + 1].arcs = Append(m.states[s + 1].arcs, arc),
              !.properties = (m.properties \ {kAcyclic, kILabelSorted, kOLabelSorted})
                             \ (IF arc.ilabel # arc.olabel THEN {kAcceptor} ELSE {})]

\* The arcs whose destination survives, in order, with the destination renumbered.
RECURSIVE SelectArcs(_, _)
SelectArcs(arcs, newid) ==
    IF arcs = <<>> THEN <<>>
    ELSE LET a == Head(arcs)
             rest == SelectArcs(Tail(arcs), newid)
         IN IF newid[a.nextstate] = kNoStateId THEN rest
            ELSE <<[a EXCEPT !.nextstate = newid[a.nextstate]]>> \o rest

\* New id of each old state: kNoStateId when deleted, else its rank among survivors.
NewIds(m, dstates) ==
    [s \in ImplStateIds(m) |->
        IF s \in dstates THEN kNoStateId
        ELSE Cardinality({t \in ImplStateIds(m) : t < s /\ t \notin dstates})]

RECURSIVE KeepStates(_, _, _, _)
KeepStates(m, dstates, newid, s) ==
    IF s >= ImplNumStates(m) THEN <<>>
    ELSE LET rest == KeepStates(m, dstates, newid, s + 1)
         IN IF s \in dstates THEN rest
            ELSE <<[final |-> ImplFinal(m, s),
                    arcs |-> SelectArcs(ImplArcs(m, s), newid)]>> \o rest

\* Removes the named states and every arc into them; survivors keep their
\* order and are renumbered densely; a deleted start becomes kNoStateId.
ImplDeleteStates(m, dstates) ==
    LET newid == NewIds(m, dstates)
    IN [m EXCEPT !.states = KeepStates(m, dstates, newid, 0),
                 !.start = IF m.start = kNoStateId THEN kNoStateId ELSE newid[m.start]]

\* Removes all states; the symbol tables stay; kError stays.
ImplDeleteAllStates(m) ==
    [m EXCEPT !.states = <<>>, !.start = kNoStateId,
              !.properties = (m.properties \cap {kError}) \cup kNullProperties
                             \cup kStaticProperties]

\* Removes the first n arcs of state s, keeping the order of the others.
ImplDeleteArcs(m, s, n) ==
    [m EXCEPT !.states[s + 1].arcs =
        SubSeq(m.states[s + 1].arcs, n + 1, Len(m.states[s + 1].arcs))]

ImplDeleteAllArcs(m, s) == [m EXCEPT !.states[s + 1].arcs = <<>>]

\* The address of the one table object a caller owns and may change later;
\* its content is symtab.arg.  Every other table pointer names a table nobody
\* changes, and stands for its content.
CallerTable == "caller_table"

\* The content found behind the table pointer p when the caller's table holds t.
TableAt(p, t) == IF p = CallerTable THEN t ELSE p

\* isyms ? isyms->Copy() : nullptr
SymbolTableCopy(isyms) == TableAt(isyms, symtab.arg)

\* SetInputSymbols that keeps the pointer it is given.
ImplSetInputSymbolsAlias(m, isyms) == [m EXCEPT !.isymbols = isyms]

\* Stores a deep copy of the argument; nullptr clears the table.
ImplSetInputSymbols(m, isyms) == [m EXCEPT !.isymbols = SymbolTableCopy(isyms)]
ImplSetOutputSymbols(m, osyms) == [m EXCEPT !.osymbols = SymbolTableCopy(osyms)]

\* ------------------------------------------------------- handles and heap
\* A heap w is [impl |-> handle -> store id, store |-> store id -> Impl].
World == [impl |-> impl, store |-> store]

Handles == 1 .. MaxHandles
Live(w) == DOMAIN w.impl

GetImpl(w, h) == w.store[w.impl[h]]

\* shared_ptr::use_count() of the store handle h references.
UseCount(w, id) == Cardinality({g \in DOMAIN w.impl : w.impl[g] = id})
Unique(w, h) == UseCount(w, w.impl[h]) = 1

\* Stores no handle references any more are destroyed.
Release(w) ==
    [w EXCEPT !.store = [id \in {w.impl[g] : g \in DOMAIN w.impl} |-> w.store[id]]]

FreshId(w) ==
    CHOOSE id \in 1 .. (Cardinality(DOMAIN w.store) + 1) :
        /\ id \notin DOMAIN w.store
        /\ \A j \in 1 .. (id - 1) : j \in DOMAIN w.store

\* SetImpl: the handle drops its reference and takes a new store holding m.
SetImpl(w, h, m) ==
    LET id == FreshId(w)
    IN Release([impl |-> [w.impl EXCEPT ![h] = id],
                store |-> [j \in DOMAIN w.store \cup {id} |->
                              IF j = id THEN m ELSE w.store[j]]])

\* GetMutableImpl()->...: writes m to the store h references.
PutImpl(w, h, m) == [w EXCEPT !.store[w.impl[h]] = m]

NoMutateCheck(w, h) == w

\* MutateCheck: if (!Unique()) SetImpl(std::make_shared<Impl>(*this)).
MutateCheck(w, h) ==
    IF ~Unique(w, h) THEN SetImpl(w, h, ImplCopy(GetImpl(w, h))) ELSE w

\* ------------------------------------------------ ImplToMutableFst mutators
SetFinalNoCheck(w, h, s, weight) == PutImpl(w, h, ImplSetFinal(GetImpl(w, h), s, weight))

SetPropertiesNoCheck(w, h, props, mask) ==
    PutImpl(w, h, ImplSetProperties(GetImpl(w, h), props, mask))

SetStart(w, h, s) ==
    LET w1 == MutateCheck(w, h) IN PutImpl(w1, h, ImplSetStart(GetImpl(w1, h), s))

SetFinal(w, h, s, weight) ==
    LET w1 == MutateCheck(w, h)
    IN PutImpl(w1, h, ImplSetFinal(GetImpl(w1, h), s, weight))

\* SetProperties that makes the mutate check in every case.
SetPropertiesAlwaysCheck(w, h, props, mask) ==
    LET w1 == MutateCheck(w, h)
    IN PutImpl(w1, h, ImplSetProperties(GetImpl(w1, h), props, mask))

\* Skips the mutate check if the extrinsic properties do not change.
SetProperties(w, h, props, mask) ==
    LET exprops == kExtrinsicProperties \cap mask
        w1 == IF ImplProperties(GetImpl(w, h), exprops) # (props \cap exprops)
              THEN MutateCheck(w, h) ELSE w
    IN PutImpl(w1, h, ImplSetProperties(GetImpl(w1, h), props, mask))

AddState(w, h) ==
    LET w1 == MutateCheck(w, h) IN PutImpl(w1, h, ImplAddState(GetImpl(w1, h)))

AddStates(w, h, n) ==
    LET w1 == MutateCheck(w, h) IN PutImpl(w1, h, ImplAddStates(GetImpl(w1, h), n))

AddArc(w, h, s, arc) ==
    LET w1 == MutateCheck(w, h) IN PutImpl(w1, h, ImplAddArc(GetImpl(w1, h), s, arc))

\* DeleteStates(dstates) that deletes every state.
DeleteStatesAll(w, h, dstates) ==
    LET w1 == MutateCheck(w, h)
    IN PutImpl(w1, h, ImplDeleteAllStates(GetImpl(w1, h)))

DeleteStates(w, h, dstates) ==
    LET w1 == MutateCheck(w, h)
    IN PutImpl(w1, h, ImplDeleteStates(GetImpl(w1, h), dstates))

\* DeleteStates() that gives the new store no symbol tables.
DeleteAllStatesNoSymbols(w, h) ==
    IF ~Unique(w, h) THEN SetImpl(w, h, EmptyImpl)
    ELSE PutImpl(w, h, ImplDeleteAllStates(GetImpl(w, h)))

\* DeleteStates(): a shared store is replaced by a new empty one that gets
\* copies of the symbol tables; a uniquely held one is emptied in place.
DeleteAllStates(w, h) ==
    IF ~Unique(w, h)
    THEN LET isymbols == GetImpl(w, h).isymbols
             osymbols == GetImpl(w, h).osymbols
         IN SetImpl(w, h, ImplSetOutputSymbols(
                              ImplSetInputSymbols(EmptyImpl, isymbols), osymbols))
    ELSE PutImpl(w, h, ImplDeleteAllStates(GetImpl(w, h)))

DeleteArcs(w, h, s, n) ==
    LET w1 == MutateCheck(w, h)
    IN PutImpl(w1, h, ImplDeleteArcs(GetImpl(w1, h), s, n))

DeleteAllArcs(w, h, s) ==
    LET w1 == MutateCheck(w, h) IN PutImpl(w1, h, ImplDeleteAllArcs(GetImpl(w1, h), s))

\* ReserveStates / ReserveArcs: the mutate check, then a capacity hint only.
ReserveStates(w, h, n) == MutateCheck(w, h)

SetInputSymbols(w, h, isyms) ==
    LET w1 == MutateCheck(w, h)
    IN PutImpl(w1, h, ImplSetInputSymbols(GetImpl(w1, h), isyms))

SetOutputSymbols(w, h, osyms) ==
    LET w1 == MutateCheck(w, h)
    IN PutImpl(w1, h, ImplSetOutputSymbols(GetImpl(w1, h), osyms))

\* ImplToFst(const ImplToFst &, bool safe): an unsafe copy shares the store; a
\* safe copy ends with private storage, either at once (fresh = TRUE) or at
\* its first mutation (fresh = FALSE).
ImplToFstCopy(w, h, g, safe, fresh) ==
    LET shared == [impl |-> [x \in DOMAIN w.impl \cup {g} |->
                                IF x = g THEN w.impl[h] ELSE w.impl[x]],
                   store |-> w.store]
    IN IF safe /\ fresh THEN SetImpl(shared, g, ImplCopy(GetImpl(w, h))) ELSE shared

\* A copy constructor that always gives the copy a store of its own.
CopyFstPrivate(w, h, g, safe, fresh) == ImplToFstCopy(w, h, g, TRUE, TRUE)

\* ImplToMutableFst(const ImplToMutableFst &fst, bool safe) : Base(fst, safe).
CopyFst(w, h, g, safe, fresh) == ImplToFstCopy(w, h, g, safe, fresh)

\* The handle's destructor: its reference is dropped.
DestroyFst(w, h) ==
    Release([w EXCEPT !.impl = [x \in DOMAIN w.impl \ {h} |-> w.impl[x]]])

\* ---------------------------------------------------------------- reads
Start(w, h) == GetImpl(w, h).start
NumStates(w, h) == ImplNumStates(GetImpl(w, h))
Final(w, h, s) == ImplFinal(GetImpl(w, h), s)
NumArcs(w, h, s) == Len(ImplArcs(GetImpl(w, h), s))
Arcs(w, h, s) == ImplArcs(GetImpl(w, h), s)
InputSymbols(w, h) == GetImpl(w, h).isymbols
OutputSymbols(w, h) == GetImpl(w, h).osymbols
Properties(w, h, mask) == ImplProperties(GetImpl(w, h), mask)
StateIds(w, h) == ImplStateIds(GetImpl(w, h))

\* What a reader sees through handle h, the property bits aside.
View(w, h) ==
    [start |-> Start(w, h), states |-> GetImpl(w, h).states,
     isymbols |-> InputSymbols(w, h), osymbols |-> OutputSymbols(w, h)]

\* ------------------------------------------------------ MutableArcIterator
\* InitMutableArcIterator: the store is privatized when the cursor is made.
InitMutableArcIterator(w, h, s) == MutateCheck(w, h)

\* Replaces the arc at position i (0-based) of state s; the structural bits
\* the new arc may invalidate become unknown.
ImplSetValue(m, s, i, arc) ==
    [m EXCEPT !.states[s + 1].arcs[i + 1] = arc,
              !.properties = m.properties \cap
                  (kStaticProperties \cup {kError}
                   \cup (IF arc.ilabel = arc.olabel THEN {kAcceptor} ELSE {}))]

\* SetValue preceded by an ownership check.
SetValueMutateCheck(w, h, s, i, arc) ==
    PutImpl(MutateCheck(w, h), h,
            ImplSetValue(GetImpl(MutateCheck(w, h), h), s, i, arc))

\* MutableArcIterator::SetValue: writes through the cursor, no ownership check.
SetValue(w, h, s, i, arc) == PutImpl(w, h, ImplSetValue(GetImpl(w, h), s, i, arc))

\* The cursor object: its handle, its state, its position, the number of
\* private copies made on its behalf (all, and those made after construction),
\* the number of calls made on it and the last of them.
NoCursor ==
    [live |-> FALSE, h |-> 0, s |-> 0, i |-> 0, copies |-> 0, late |-> 0,
     steps |-> 0, last |-> ""]

\* 1 when the call that took heap w to w2 gave handle h another store.
Copied(w, w2, h) == IF w2.impl[h] # w.impl[h] THEN 1 ELSE 0

\* MutableArcIterator(fst, s)
MutableArcIterator(w, w2, h, s) ==
    [live |-> TRUE, h |-> h, s |-> s, i |-> 0, copies |-> Copied(w, w2, h),
     late |-> 0, steps |-> 1, last |-> "MutableArcIterator"]

\* The cursor after a call that took heap w to w2 and left it at position i.
CursorAfter(c, w, w2, i, op) ==
    [c EXCEPT !.i = i, !.copies = @ + Copied(w, w2, c.h),
              !.late = @ + Copied(w, w2, c.h), !.steps = @ + 1, !.last = op]

CursorDone(w, c) == c.i >= NumArcs(w, c.h, c.s)
CursorNext(c) == c.i + 1
CursorReset(c) == 0
CursorSeek(c, a) == a

\* --------------------------------------------------- symbol-table accessors
\* MutableInputSymbols without the ownership check.
MutableInputSymbolsNoCheck(w, h) == w

\* MutableInputSymbols / MutableOutputSymbols: the heap the call leaves.
MutableInputSymbols(w, h) == MutateCheck(w, h)
MutableOutputSymbols(w, h) == MutateCheck(w, h)

\* No table: what the accessors return when the automaton has none.
NoRef == [id |-> 0, side |-> "", h |-> 0, others |-> {}]

\* GetMutableImpl()->InputSymbols() / OutputSymbols(): the table inside the
\* store h references in heap w, with the handles that were live at the time.
MutableSymbolsRef(w, h, side) ==
    IF (IF side = "i" THEN InputSymbols(w, h) ELSE OutputSymbols(w, h)) = NoSymbols
    THEN NoRef
    ELSE [id |-> w.impl[h], side |-> side, h |-> h, others |-> DOMAIN w.impl \ {h}]

\* A change the caller makes to the table ref names (AddSymbol, ...): the
\* table then holds t.
WriteSymbolTable(w, ref, t) ==
    [w EXCEPT !.store[ref.id] =
        IF ref.side = "i" THEN [@ EXCEPT !.isymbols = t] ELSE [@ EXCEPT !.osymbols = t]]

\* The caller's own table (holding syms_y at first) and the table it borrowed.
NoSymtab == [arg |-> "syms_y", prev |-> "syms_y", ref |-> NoRef]

\* ---------------------------------------------------------- MutableFst::Read
NoIo == [op |-> ""]
\* An absent automaton.
nullptr == [fst_type |-> "nullptr", properties |-> {}]

\* The type tags of the registry, and a tag it does not know.
FstTypes == {"vector", "const"}
TypeTags == FstTypes \cup {"unknown"}

\* The capability bits of an automaton of a registered type.
TypeProperties(fst_type) ==
    IF fst_type = "vector" THEN {kExpanded, kMutable} ELSE {kExpanded}

\* The headers a stream or the read options can carry.
FstHeaders ==
    {[fst_type |-> ty, properties |-> TypeProperties(ty)] : ty \in FstTypes}
    \cup {[fst_type |-> "unknown", properties |-> pr] :
              pr \in {{kExpanded}, {kExpanded, kMutable}}}
NoHeader == [fst_type |-> "", properties |-> {}]

\* A stream: whether its header parses, the header, whether its body reads.
Streams == [hdr_ok : BOOLEAN, hdr : FstHeaders, body_ok : BOOLEAN]

\* FstRegister::GetReader and the reader it returns: the automaton read takes
\* its type and its property bits from the header.
GetReader(fst_type) == fst_type \in FstTypes
Reader(strm, hdr) ==
    IF strm.body_ok THEN [fst_type |-> hdr.fst_type, properties |-> hdr.properties]
    ELSE nullptr

\* What a call returns, the diagnostics it logged and the steps it made.
ReadResult(fst, log, steps) ==
    [fst |-> fst, log |-> log, steps |-> steps, aborted |-> FALSE]

\* Read with the registry consulted before the capability bit.
MutableFstReadRegistryFirst(strm, header) ==
    LET parse == header = NoHeader
        hdr == IF parse THEN strm.hdr ELSE header
        s1 == IF parse THEN <<"hdr.Read">> ELSE <<>>
    IN IF parse /\ ~strm.hdr_ok THEN ReadResult(nullptr, <<>>, s1)
       ELSE IF ~GetReader(hdr.fst_type)
       THEN ReadResult(nullptr, <<"Unknown FST type">>, s1 \o <<"GetReader">>)
       ELSE IF kMutable \notin hdr.properties
       THEN ReadResult(nullptr, <<"Not a MutableFst">>, s1 \o <<"GetReader">>)
       ELSE ReadResult(Reader(strm, hdr), <<>>, s1 \o <<"GetReader", "reader">>)

\* MutableFst::Read(std::istream &, const FstReadOptions &); header is
\* opts.header, NoHeader when the options carry none.
MutableFstRead(strm, header) ==
    LET parse == header = NoHeader
        hdr == IF parse THEN strm.hdr ELSE header
        s1 == IF parse THEN <<"hdr.Read">> ELSE <<>>
    IN IF parse /\ ~strm.hdr_ok THEN ReadResult(nullptr, <<>>, s1)
       ELSE IF kMutable \notin hdr.properties
       THEN ReadResult(nullptr, <<"Not a MutableFst">>, s1)
       ELSE IF ~GetReader(hdr.fst_type)
       THEN ReadResult(nullptr, <<"Unknown FST type">>, s1 \o <<"GetReader">>)
       ELSE ReadResult(Reader(strm, hdr), <<>>, s1 \o <<"GetReader", "reader">>)

\* Fst::Read(source): opens the source (the standard input when it is empty)
\* and reads whatever registered type the header names.
FstRead(file) ==
    IF file.source # "" /\ ~file.can_open
    THEN ReadResult(nullptr, <<"Can't open file">>, <<"open">>)
    ELSE IF ~file.strm.hdr_ok THEN ReadResult(nullptr, <<>>, <<"open", "hdr.Read">>)
    ELSE IF ~GetReader(file.strm.hdr.fst_type)
    THEN ReadResult(nullptr, <<"Unknown FST type">>, <<"open", "hdr.Read", "GetReader">>)
    ELSE ReadResult(Reader(file.strm, file.strm.hdr), <<>>,
                    <<"open", "hdr.Read", "GetReader", "reader">>)

\* Convert(fst, convert_type): an automaton of the named type, if registered.
Convert(fst, convert_type) ==
    IF GetReader(convert_type)
    THEN [fst_type |-> convert_type, properties |-> TypeProperties(convert_type)]
    ELSE nullptr

\* MutableFst::Read(const std::string &source, bool convert, convert_type)
MutableFstReadFile(file, convert, convert_type) ==
    IF ~convert
    THEN IF file.source # ""
         THEN IF ~file.can_open
              THEN ReadResult(nullptr, <<"Can't open file">>, <<"open">>)
              ELSE LET r == MutableFstRead(file.strm, NoHeader)
                   IN ReadResult(r.fst, r.log, <<"open">> \o r.steps)
         ELSE MutableFstRead(file.strm, NoHeader)
    ELSE LET r == FstRead(file)
         IN IF r.fst = nullptr THEN r
            ELSE IF kMutable \in r.fst.properties THEN r
            ELSE LET ofst == Convert(r.fst, convert_type)
                 IN IF ofst = nullptr
                    THEN ReadResult(nullptr, r.log, r.steps \o <<"Convert">>)
                    ELSE IF kMutable \notin ofst.properties
                    THEN ReadResult(ofst, r.log \o <<"Bad convert type">>,
                                    r.steps \o <<"Convert">>)
                    ELSE ReadResult(ofst, r.log, r.steps \o <<"Convert">>)

\* ------------------------------------------------------- composite weight I/O
\* Characters are one-letter strings; NUL is the character 0 (no bracket) and
\* EOF what get() returns when it has no character.
NUL == "NUL"
EOF == "EOF"
\* A character test that takes what get() returns at the end of input for
\* white space.
isspaceOrEOF(c) == c \in {" ", "\t", "\n", "EOF"}

isspace(c) == c \in {" ", "\t", "\n"}

\* std::ios state bits; a stream is good when none is set.
eofbit == "eofbit"
failbit == "failbit"
badbit == "badbit"
StreamFail(strm) == strm.state \cap {failbit, badbit} # {}

\* A stream: its characters, the number of them already consumed (an output
\* stream consumes none and appends), and its state bits.
MakeStream(text, state) == [text |-> text, pos |-> 0, state |-> state]

\* istream::get(): no character and failbit on a stream that is not good or
\* is at its end (then eofbit too).
IstreamGet(strm) ==
    IF strm.state # {}
    THEN [strm |-> [strm EXCEPT !.state = @ \cup {failbit}], c |-> EOF]
    ELSE IF strm.pos >= Len(strm.text)
    THEN [strm |-> [strm EXCEPT !.state = @ \cup {eofbit, failbit}], c |-> EOF]
    ELSE [strm |-> [strm EXCEPT !.pos = @ + 1], c |-> strm.text[strm.pos + 1]]

\* ostream << char: nothing is written to a stream that is not good.
OstreamPut(strm, c) ==
    IF strm.state # {} THEN [strm EXCEPT !.state = @ \cup {failbit}]
    ELSE [strm EXCEPT !.text = Append(@, c)]

\* ios::clear(state)
StreamClear(strm, state) == [strm EXCEPT !.state = state]

\* A constructor that accepts a lone bracket.
CompositeWeightIONoCheck(separator, open_paren, close_paren) ==
    [separator_ |-> separator, open_paren_ |-> open_paren,
     close_paren_ |-> close_paren, error_ |-> FALSE]

\* CompositeWeightIO(char separator, std::pair<char, char> parentheses)
CompositeWeightIO(separator, open_paren, close_paren) ==
    [separator_ |-> separator, open_paren_ |-> open_paren,
     close_paren_ |-> close_paren,
     error_ |-> (open_paren = NUL \/ close_paren = NUL) /\ open_paren # close_paren]

\* CompositeWeightIO(): the configuration of the two flags.
CompositeWeightIOFlags(fst_weight_separator, fst_weight_parentheses) ==
    LET base == CompositeWeightIO(
                    IF fst_weight_separator = <<>> THEN NUL
                    ELSE fst_weight_separator[1],
                    IF fst_weight_parentheses = <<>> THEN NUL
                    ELSE fst_weight_parentheses[1],
                    IF Len(fst_weight_parentheses) < 2 THEN NUL
                    ELSE fst_weight_parentheses[2])
    IN [base EXCEPT !.error_ =
            \/ @
            \/ Len(fst_weight_separator) # 1
            \/ fst_weight_parentheses # <<>> /\ Len(fst_weight_parentheses) # 2]

\* CompositeWeightWriter / CompositeWeightReader constructors on stream strm
\* with configuration cfg: the object and its stream.
CompositeWeightCodec(kind, cfg, strm) ==
    [kind |-> kind, separator_ |-> cfg.separator_, open_paren_ |-> cfg.open_paren_,
     close_paren_ |-> cfg.close_paren_, error_ |-> cfg.error_,
     strm |-> IF cfg.error_ THEN StreamClear(strm, {badbit}) ELSE strm,
     c_ |-> NUL, depth_ |-> 0, i_ |-> 0]
CompositeWeightWriter(cfg, strm) == CompositeWeightCodec("writer", cfg, strm)
CompositeWeightReader(cfg, strm) == CompositeWeightCodec("reader", cfg, strm)

\* WriteBegin that emits no bracket.
WriteBeginNoParen(r) == r

WriteBegin(r) ==
    IF r.open_paren_ # NUL THEN [r EXCEPT !.strm = OstreamPut(@, r.open_paren_)]
    ELSE r

\* WriteEnd that emits the open bracket.
WriteEndOpenParen(r) ==
    IF r.close_paren_ # NUL THEN [r EXCEPT !.strm = OstreamPut(@, r.open_paren_)]
    ELSE r

WriteEnd(r) ==
    IF r.close_paren_ # NUL THEN [r EXCEPT !.strm = OstreamPut(@, r.close_paren_)]
    ELSE r

\* do c_ = istrm_.get() while isspace(c_)
RECURSIVE SkipSpace(_)
SkipSpace(strm) ==
    LET g == IstreamGet(strm)
    IN IF isspace(g.c) THEN SkipSpace(g.strm) ELSE g

\* ReadBegin that counts the depth also when the bracket is missing.
ReadBeginDepthAlways(r) ==
    LET g == SkipSpace(r.strm)
    IN IF r.open_paren_ # NUL
       THEN IF g.c # r.open_paren_
            THEN [r EXCEPT !.strm = StreamClear(g.strm, {badbit}), !.c_ = g.c,
                           !.depth_ = @ + 1]
            ELSE LET g2 == IstreamGet(g.strm)
                 IN [r EXCEPT !.strm = g2.strm, !.c_ = g2.c, !.depth_ = @ + 1]
       ELSE [r EXCEPT !.strm = g.strm, !.c_ = g.c]

ReadBegin(r) ==
    LET g == SkipSpace(r.strm)
    IN IF r.open_paren_ # NUL
       THEN IF g.c # r.open_paren_
            THEN [r EXCEPT !.strm = StreamClear(g.strm, {badbit}), !.c_ = g.c]
            ELSE LET g2 == IstreamGet(g.strm)
                 IN [r EXCEPT !.strm = g2.strm, !.c_ = g2.c, !.depth_ = @ + 1]
       ELSE [r EXCEPT !.strm = g.strm, !.c_ = g.c]

\* ReadBegin after its loop: the bracket test on the character in c_.
ReadBeginParen(r) ==
    IF r.open_paren_ # NUL
    THEN IF r.c_ # r.open_paren_
         THEN [r EXCEPT !.strm = StreamClear(@, {badbit})]
         ELSE LET g2 == IstreamGet(r.strm)
              IN [r EXCEPT !.strm = g2.strm, !.c_ = g2.c, !.depth_ = @ + 1]
    ELSE r

\* ReadEnd that accepts any lookahead.
ReadEndNoCheck(r) == r

ReadEnd(r) ==
    IF r.c_ # EOF /\ ~isspace(r.c_)
    THEN [r EXCEPT !.strm = StreamClear(@, {badbit})]
    ELSE r

\* Component weights are printed in decimal.
Digits == <<"0", "1", "2", "3", "4", "5", "6", "7", "8", "9">>
IsDigit(c) == \E d \in DOMAIN Digits : Digits[d] = c
DigitValue(c) == (CHOOSE d \in DOMAIN Digits : Digits[d] = c) - 1
ToChars(weight) ==
    IF weight < 10 THEN <<Digits[weight + 1]>>
    ELSE <<Digits[(weight \div 10) + 1], Digits[(weight % 10) + 1]>>
NoValue == 0 - 1
RECURSIVE FromChars(_, _)
FromChars(s, acc) ==
    IF s = <<>> THEN acc
    ELSE IF ~IsDigit(Head(s)) THEN NoValue
    ELSE FromChars(Tail(s), 10 * acc + DigitValue(Head(s)))

RECURSIVE OstreamWrite(_, _)
OstreamWrite(strm, chars) ==
    IF chars = <<>> THEN strm
    ELSE OstreamWrite(OstreamPut(strm, Head(chars)), Tail(chars))

\* WriteElement: the separator before every element but the first.
WriteElement(r, weight) ==
    LET s1 == IF r.i_ > 0 THEN OstreamPut(r.strm, r.separator_) ELSE r.strm
    IN [r EXCEPT !.strm = OstreamWrite(s1, ToChars(weight)), !.i_ = @ + 1]

\* The characters of one element: up to the end of input, a whitespace, the
\* separator (unless it is the last element) or the close bracket.
RECURSIVE ReadToken(_, _, _)
ReadToken(r, last, s) ==
    IF /\ r.c_ # EOF /\ ~isspace(r.c_)
       /\ (r.c_ # r.separator_ \/ r.depth_ > 1 \/ last)
       /\ (r.c_ # r.close_paren_ \/ r.depth_ # 1)
    THEN LET g == IstreamGet(r.strm)
         IN ReadToken([r EXCEPT !.strm = g.strm, !.c_ = g.c], last, Append(s, r.c_))
    ELSE [r |-> r, s |-> s]

\* ReadElement: one component, then the separator (or, after the last
\* component of a bracketed weight, the close bracket) expected and consumed.
ReadElement(r, last) ==
    LET tok == ReadToken(r, last, <<>>)
        r1 == tok.r
        value == IF tok.s = <<>> THEN NoValue ELSE FromChars(tok.s, 0)
        closes == last /\ r1.open_paren_ # NUL
        expected == IF closes THEN r1.close_paren_ ELSE r1.separator_
        bad == [r |-> [r1 EXCEPT !.strm = StreamClear(@, {badbit})], value |-> NoValue]
    IN IF StreamFail(r.strm) /\ r.c_ = EOF THEN [r |-> r, value |-> NoValue]
       ELSE IF value = NoValue THEN bad
       ELSE IF (closes \/ ~last) /\ r1.c_ # expected THEN bad
       ELSE LET g == IF closes \/ ~last THEN IstreamGet(r1.strm)
                     ELSE [strm |-> r1.strm, c |-> r1.c_]
                s2 == IF g.c = EOF /\ badbit \notin g.strm.state
                      THEN StreamClear(g.strm, {eofbit}) ELSE g.strm
            IN [r |-> [r1 EXCEPT !.strm = s2, !.c_ = g.c,
                                 !.depth_ = IF closes THEN @ - 1 ELSE @],
                value |-> value]

\* operator<< of a pair weight
WritePair(r, w1, w2) == WriteEnd(WriteElement(WriteElement(WriteBegin(r), w1), w2))

\* operator>> of a pair weight: the reader afterwards and the pair read, absent
\* when the stream failed.
ReadPair(r) ==
    LET e1 == ReadElement(ReadBegin(r), FALSE)
        e2 == ReadElement(e1.r, TRUE)
        r4 == ReadEnd(e2.r)
    IN [r |-> r4,
        value |-> IF StreamFail(r4.strm) THEN <<>> ELSE <<e1.value, e2.value>>]

\* ------------------------------------------------------------------ Closure
CLOSURE_STAR == "CLOSURE_STAR"
CLOSURE_PLUS == "CLOSURE_PLUS"
ClosureTypes == {CLOSURE_STAR, CLOSURE_PLUS}

\* ClosureProperties(inprops, star): closure makes cycles and appends arcs,
\* so acyclicity and sortedness are not carried over.
ClosureProperties(inprops, star) ==
    inprops \cap (kStaticProperties \cup {kError, kAcceptor})

ClosureArcNoWeight(weight, start) == MakeArc(0, 0, One, start)

\* The arc the loop adds to a final state: Arc(0, 0, weight, start).
ClosureArc(weight, start) == MakeArc(0, 0, weight, start)

ClosureEveryState(weight) == TRUE

\* The loop's test: weight != Weight::Zero().
ClosureIsFinal(weight) == weight # Zero

\* The loop with a body that also makes the state it adds an arc to non-final.
RECURSIVE ClosureLoopClearsFinal(_, _, _, _)
ClosureLoopClearsFinal(w, h, s, start) ==
    IF s >= NumStates(w, h) THEN w
    ELSE LET weight == Final(w, h, s)
             w1 == IF ClosureIsFinal(weight)
                   THEN SetFinal(AddArc(w, h, s, ClosureArc(weight, start)), h, s, Zero)
                   ELSE w
         IN ClosureLoopClearsFinal(w1, h, s + 1, start)

\* The StateIterator loop of Closure, from state s on.
RECURSIVE ClosureLoop(_, _, _, _)
ClosureLoop(w, h, s, start) ==
    IF s >= NumStates(w, h) THEN w
    ELSE LET weight == Final(w, h, s)
             w1 == IF ClosureIsFinal(weight)
                   THEN AddArc(w, h, s, ClosureArc(weight, start)) ELSE w
         IN ClosureLoop(w1, h, s + 1, start)

ClosureStarNoFinal(w, h, start) ==
    LET w1 == ReserveStates(w, h, NumStates(w, h) + 1)
        nstart == NumStates(w1, h)
        w2 == AddState(w1, h)
        w3 == SetStart(w2, h, nstart)
    IN IF start # kNoStateId THEN AddArc(w3, h, nstart, MakeArc(0, 0, One, start))
       ELSE w3

ClosureStarNoStart(w, h, start) ==
    LET w1 == ReserveStates(w, h, NumStates(w, h) + 1)
        nstart == NumStates(w1, h)
        w2 == AddState(w1, h)
        w3 == SetFinal(w2, h, nstart, One)
    IN IF start # kNoStateId THEN AddArc(w3, h, nstart, MakeArc(0, 0, One, start))
       ELSE w3

\* The CLOSURE_STAR branch: a new state becomes the start, is final with
\* weight One, and gets Arc(0, 0, start) (weight One) when there was a start.
ClosureStar(w, h, start) ==
    LET w1 == ReserveStates(w, h, NumStates(w, h) + 1)
        nstart == NumStates(w1, h)
        w2 == AddState(w1, h)
        w3 == SetStart(w2, h, nstart)
        w4 == SetFinal(w3, h, nstart, One)
    IN IF start # kNoStateId THEN AddArc(w4, h, nstart, MakeArc(0, 0, One, start))
       ELSE w4

\* Closure without the final SetProperties.
ClosureNoSetProperties(w, h, closure_type) ==
    LET start == Start(w, h)
        w1 == ClosureLoop(w, h, 0, start)
    IN IF closure_type = CLOSURE_STAR THEN ClosureStar(w1, h, start) ELSE w1

Closure(w, h, closure_type) ==
    LET props == Properties(w, h, kFstProperties)
        start == Start(w, h)
        w1 == ClosureLoop(w, h, 0, start)
        w2 == IF closure_type = CLOSURE_STAR THEN ClosureStar(w1, h, start) ELSE w1
    IN SetProperties(w2, h, ClosureProperties(props, closure_type = CLOSURE_STAR),
                     kFstProperties)

\* ------------------------------------------------------------------- Invert
MAP_NO_SUPERFINAL == "MAP_NO_SUPERFINAL"
MAP_CLEAR_SYMBOLS == "MAP_CLEAR_SYMBOLS"

InvertMapperNoSwap(arc) == arc

InvertMapperSameLabel(arc) == MakeArc(arc.olabel, arc.olabel, arc.weight, arc.nextstate)

\* InvertMapper::operator(): ToArc(arc.olabel, arc.ilabel, arc.weight, arc.nextstate).
InvertMapper(arc) == MakeArc(arc.olabel, arc.ilabel, arc.weight, arc.nextstate)

InvertMapperFinalAction == MAP_NO_SUPERFINAL
InvertMapperInputSymbolsAction == MAP_CLEAR_SYMBOLS
InvertMapperOutputSymbolsAction == MAP_CLEAR_SYMBOLS

\* InvertProperties: the input and output side bits change places.
InvertProperties(props) ==
    (props \ {kILabelSorted, kOLabelSorted})
    \cup (IF kILabelSorted \in props THEN {kOLabelSorted} ELSE {})
    \cup (IF kOLabelSorted \in props THEN {kILabelSorted} ELSE {})

\* InvertMapper::Properties.
InvertMapperProperties(props) == InvertProperties(props)

\* ArcMap's cursor loop over the arcs of state s, from position i on.
RECURSIVE ArcMapArcs(_, _, _, _)
ArcMapArcs(w, h, s, i) ==
    IF i >= NumArcs(w, h, s) THEN w
    ELSE ArcMapArcs(SetValue(w, h, s, i, InvertMapper(Arcs(w, h, s)[i + 1])), h, s, i + 1)

\* ArcMap's loop over the states, from state s on: every arc is replaced by
\* its image; with MAP_NO_SUPERFINAL the final weight is the image's weight.
RECURSIVE ArcMapStates(_, _, _)
ArcMapStates(w, h, s) ==
    IF s >= NumStates(w, h) THEN w
    ELSE LET w1 == ArcMapArcs(InitMutableArcIterator(w, h, s), h, s, 0)
             final_arc == InvertMapper(MakeArc(0, 0, Final(w1, h, s), kNoStateId))
         IN ArcMapStates(SetFinal(w1, h, s, final_arc.weight), h, s + 1)

\* ArcMap(MutableFst *, InvertMapper): in place.
ArcMap(w, h) ==
    LET w1 == IF InvertMapperInputSymbolsAction = MAP_CLEAR_SYMBOLS
              THEN SetInputSymbols(w, h, NoSymbols) ELSE w
        w2 == IF InvertMapperOutputSymbolsAction = MAP_CLEAR_SYMBOLS
              THEN SetOutputSymbols(w1, h, NoSymbols) ELSE w1
        props == Properties(w2, h, kFstProperties)
        w3 == ArcMapStates(w2, h, 0)
    IN SetProperties(w3, h, InvertMapperProperties(props), kFstProperties)

InvertKeepSymbols(w, h) ==
    LET input == InputSymbols(w, h)
        output == OutputSymbols(w, h)
        w1 == ArcMap(w, h)
    IN SetOutputSymbols(SetInputSymbols(w1, h, input), h, output)

\* Invert(MutableFst *): the destructive variant.
Invert(w, h) ==
    LET input == InputSymbols(w, h)
        output == OutputSymbols(w, h)
        w1 == ArcMap(w, h)
    IN SetOutputSymbols(SetInputSymbols(w1, h, output), h, input)

\* ArcMap(ifst, ofst, InvertMapper): the images of the arcs of state s of
\* ifst, from position i on, are added to state s of ofst.
RECURSIVE ArcMapIntoArcs(_, _, _, _, _)
ArcMapIntoArcs(w, ifst, ofst, s, i) ==
    IF i >= NumArcs(w, ifst, s) THEN w
    ELSE ArcMapIntoArcs(AddArc(w, ofst, s, InvertMapper(Arcs(w, ifst, s)[i + 1])),
                        ifst, ofst, s, i + 1)

RECURSIVE ArcMapIntoStates(_, _, _, _)
ArcMapIntoStates(w, ifst, ofst, s) ==
    IF s >= NumStates(w, ifst) THEN w
    ELSE LET w1 == ArcMapIntoArcs(w, ifst, ofst, s, 0)
             final_arc == InvertMapper(MakeArc(0, 0, Final(w1, ifst, s), kNoStateId))
         IN ArcMapIntoStates(SetFinal(w1, ofst, s, final_arc.weight), ifst, ofst, s + 1)

\* ArcMap(const Fst &ifst, MutableFst *ofst, InvertMapper): ofst is emptied
\* and rebuilt from ifst, state by state, arc by arc.
ArcMapInto(w, ifst, ofst) ==
    LET w0 == DeleteAllStates(w, ofst)
        w1 == IF InvertMapperInputSymbolsAction = MAP_CLEAR_SYMBOLS
              THEN SetInputSymbols(w0, ofst, NoSymbols) ELSE w0
        w2 == IF InvertMapperOutputSymbolsAction = MAP_CLEAR_SYMBOLS
              THEN SetOutputSymbols(w1, ofst, NoSymbols) ELSE w1
        iprops == Properties(w2, ifst, kFstProperties)
        w3 == AddStates(w2, ofst, NumStates(w2, ifst))
        w4 == IF Start(w3, ifst) # kNoStateId
              THEN SetStart(w3, ofst, Start(w3, ifst)) ELSE w3
        w5 == ArcMapIntoStates(w4, ifst, ofst, 0)
    IN SetProperties(w5, ofst, InvertMapperProperties(iprops), kFstProperties)

\* Invert into ofst that gives ofst the tables of ifst side by side.
InvertIntoKeepSymbols(w, ifst, ofst) ==
    LET input == InputSymbols(w, ifst)
        output == OutputSymbols(w, ifst)
        w1 == ArcMapInto(w, ifst, ofst)
    IN SetOutputSymbols(SetInputSymbols(w1, ofst, input), ofst, output)

\* Invert(const Fst &ifst, MutableFst *ofst).
InvertInto(w, ifst, ofst) ==
    LET input == InputSymbols(w, ifst)
        output == OutputSymbols(w, ifst)
        w1 == ArcMapInto(w, ifst, ofst)
    IN SetOutputSymbols(SetInputSymbols(w1, ofst, output), ofst, input)

\* ---------------------------------------------------------------- InvertFst
\* The cache of a lazy view: the states computed so far, by id; every answer
\* the view has given; the last of them; and the number of queries.
NoCache == [s \in {} |-> NewState]
NoAnswer == [s |-> kNoStateId, what |-> "", value |-> NewState]
NewCache ==
    [cache |-> NoCache, asked |-> {}, last |-> NoAnswer, queries |-> 0, handles |-> 1]

\* ArcMapFst(fst, mapper): the view keeps its own unsafe copy g of the source
\* handle; the mapper's symbol actions clear both of the view's tables.
ArcMapFst(w, h, g) ==
    [fst |-> g, type |-> "InvertMapper", lazy |-> NewCache,
     isymbols |-> IF InvertMapperInputSymbolsAction = MAP_CLEAR_SYMBOLS
                  THEN NoSymbols ELSE InputSymbols(w, h),
     osymbols |-> IF InvertMapperOutputSymbolsAction = MAP_CLEAR_SYMBOLS
                  THEN NoSymbols ELSE OutputSymbols(w, h),
     source |-> View(w, h)]

InvertFstNoSwap(w, h, g) ==
    [ArcMapFst(w, h, g) EXCEPT !.isymbols = InputSymbols(w, h),
                               !.osymbols = OutputSymbols(w, h)]

\* InvertFst(const Fst &fst): SetOutputSymbols(fst.InputSymbols());
\* SetInputSymbols(fst.OutputSymbols()).
InvertFst(w, h, g) ==
    [ArcMapFst(w, h, g) EXCEPT !.osymbols = InputSymbols(w, h),
                               !.isymbols = OutputSymbols(w, h)]

\* The view's own table accessors.
ViewInputSymbols(v) == v.isymbols
ViewOutputSymbols(v) == v.osymbols

\* ClosureFst(fst, closure_type): InitClosure keeps a copy g of the source
\* handle and the source's tables.
ClosureFst(w, h, g, closure_type) ==
    [fst |-> g, type |-> closure_type, lazy |-> NewCache,
     isymbols |-> InputSymbols(w, h), osymbols |-> OutputSymbols(w, h),
     source |-> View(w, h)]

\* The images of the arcs, in order.
RECURSIVE MapArcs(_)
MapArcs(arcs) ==
    IF arcs = <<>> THEN <<>> ELSE <<InvertMapper(Head(arcs))>> \o MapArcs(Tail(arcs))

\* The state ids of the automaton view v stands for.
ViewStateIds(w, v) ==
    IF v.type = CLOSURE_STAR THEN 0 .. NumStates(w, v.fst) ELSE StateIds(w, v.fst)

\* Expand: state s of the automaton the view stands for, computed from the
\* source as the view's handle sees it.
ViewExpand(w, v, s) ==
    IF v.type \in ClosureTypes
    THEN GetImpl(Closure(w, v.fst, v.type), v.fst).states[s + 1]
    ELSE [final |-> InvertMapper(MakeArc(0, 0, Final(w, v.fst, s), kNoStateId)).weight,
          arcs |-> MapArcs(Arcs(w, v.fst, s))]

\* The start state of the automaton the view stands for.
ViewStart(w, v) ==
    IF v.type \in ClosureTypes
    THEN Start(Closure(w, v.fst, v.type), v.fst) ELSE Start(w, v.fst)

\* The answer to a query (what is "Final" or "Arcs") for a state: the part
\* of the state the query is about.
ViewAnswer(st, s, what) ==
    [s |-> s, what |-> what,
     value |-> IF what = "Final" THEN [NewState EXCEPT !.final = st.final]
               ELSE [NewState EXCEPT !.arcs = st.arcs]]

\* A query that computes the state every time and caches nothing.
ViewQueryNoCache(w, v, s, what) ==
    LET st == ViewExpand(w, v, s)
    IN [v EXCEPT !.lazy.asked = @ \cup {ViewAnswer(st, s, what)},
                 !.lazy.last = ViewAnswer(st, s, what),
                 !.lazy.queries = @ + 1]

\* Final(s) or ArcIterator(fst, s) on a view: the state is computed on the
\* first query for its id and cached; later queries are answered from the cache.
ViewQuery(w, v, s, what) ==
    LET c == v.lazy.cache
        st == IF s \in DOMAIN c THEN c[s] ELSE ViewExpand(w, v, s)
    IN [v EXCEPT !.lazy.cache = [x \in DOMAIN c \cup {s} |-> IF x = s THEN st ELSE c[x]],
                 !.lazy.asked = @ \cup {ViewAnswer(st, s, what)},
                 !.lazy.last = ViewAnswer(st, s, what),
                 !.lazy.queries = @ + 1]

\* Copy(safe) of a view: a safe copy is another view on the same source, with
\* the cache kept (preserve = TRUE) or empty.
ViewCopy(v, preserve) ==
    IF preserve THEN [v EXCEPT !.lazy.handles = 1, !.lazy.queries = 0]
    ELSE [v EXCEPT !.lazy = NewCache]

\* ------------------------------------------------------- initial automata
\* The automaton of the concrete scenario: 0 -a:a/One-> 1, Final(1) = One.
ScenarioImpl ==
    [start |-> 0,
     states |-> <<[final |-> Zero, arcs |-> <<MakeArc(1, 1, One, 1)>>],
                  [final |-> One, arcs |-> <<>>]>>,
     isymbols |-> NoSymbols, osymbols |-> NoSymbols,
     properties |-> kStaticProperties \cup kNullProperties]

\* A cyclic transducer with an input table only, with the error bit set.
TransducerImpl ==
    [start |-> 0,
     states |-> <<[final |-> Zero, arcs |-> <<MakeArc(1, 2, 2, 1)>>],
                  [final |-> 2, arcs |-> <<MakeArc(0, 1, One, 0)>>]>>,
     isymbols |-> "syms_x", osymbols |-> NoSymbols,
     properties |-> kStaticProperties \cup {kError}]

Seeds == {EmptyImpl, ScenarioImpl, TransducerImpl}

\* Three states with arcs between all of them, and both symbol tables.
DenseImpl ==
    [start |-> 1,
     states |-> <<[final |-> Zero,
                   arcs |-> <<MakeArc(1, 1, One, 0), MakeArc(1, 2, One, 1),
                              MakeArc(1, 1, 2, 2)>>],
                  [final |-> 2,
                   arcs |-> <<MakeArc(1, 2, 2, 2), MakeArc(1, 1, One, 0)>>],
                  [final |-> One,
                   arcs |-> <<MakeArc(1, 1, 2, 1), MakeArc(1, 2, One, 2),
                              MakeArc(1, 2, 2, 0)>>]>>,
     isymbols |-> "syms_x", osymbols |-> "syms_y",
     properties |-> kStaticProperties]

\* The sequences of i states that hold at most k arcs in all.
RECURSIVE FamStateSeqs(_, _, _, _)
FamStateSeqs(i, k, FW, A) ==
    IF i = 0 THEN {<<>>}
    ELSE UNION {{Append(pre, [final |-> f, arcs |-> as]) :
                    pre \in FamStateSeqs(i - 1, k - j, FW, A),
                    f \in FW, as \in [1 .. j -> A]} : j \in 0 .. k}

FamArcSet(LP, AW, n) ==
    {MakeArc(lp[1], lp[2], aw, d) : lp \in LP, aw \in AW, d \in 0 .. (n - 1)}

\* The bits known of a freshly built automaton: kAcceptor when every arc has
\* equal labels; the other structural bits are unknown.
FamProperties(ss) ==
    kStaticProperties \cup
    (IF \A i \in DOMAIN ss : \A j \in DOMAIN ss[i].arcs :
            ss[i].arcs[j].ilabel = ss[i].arcs[j].olabel
     THEN {kAcceptor} ELSE {})

\* Every automaton of at most MaxStates states and FamArcs arcs over the
\* label pairs LP, arc weights AW, final weights FW and table pairs SP.
Family(LP, AW, FW, SP) ==
    UNION {{[start |-> st, states |-> ss, isymbols |-> sy[1], osymbols |-> sy[2],
             properties |-> FamProperties(ss)] :
               st \in {kNoStateId} \cup (0 .. (n - 1)),
               ss \in FamStateSeqs(n, FamArcs, FW, FamArcSet(LP, AW, n)),
               sy \in SP} : n \in 0 .. MaxStates}

\* The acceptors Closure is applied to and the transducers Invert is applied
\* to, with the table pairs SP.
ClosureFamily(SP) == Family({<<1, 1>>}, {One, 2}, Weights, SP)

InvertFamily(SP) == Family({<<1, 2>>, <<0, 1>>}, {2}, {Zero, 2}, SP)

\* ------------------------------------------------------------------ actions
NoOrigin == [src |-> 0, safe |-> FALSE]

\* (DeleteStates records the states it names in props, Copy the handle it
\* makes; the calls that involve the caller's tables record the table they
\* are given in type.)
Call(op, h, props, mask, type) ==
    [op |-> op, h |-> h, props |-> props, mask |-> mask, type |-> type]

\* The handles a caller holds (a view's own copy of its source is not one).
UserHandles == DOMAIN impl \ {views[i].fst : i \in DOMAIN views}

\* One call through handle h that leaves the heap w2.
Do(call, w2) ==
    /\ Len(calls) < MaxOps
    /\ impl' = w2.impl
    /\ store' = w2.store
    /\ before' = World
    /\ calls' = Append(calls, call)
    /\ UNCHANGED <<first, cursor, io, symtab, threads>>

Mutate(op, h, w2) ==
    /\ Do(Call(op, h, {}, {}, ""), w2)
    /\ UNCHANGED <<origin, views>>

DoSetStart ==
    \E h \in UserHandles : \E s \in StateIds(World, h) :
        Mutate("SetStart", h, SetStart(World, h, s))

DoSetFinal ==
    \E h \in UserHandles : \E s \in StateIds(World, h) : \E weight \in Weights :
        Mutate("SetFinal", h, SetFinal(World, h, s, weight))

DoSetProperties ==
    \E h \in UserHandles :
    \E props \in {{}, {kError}, {kAcceptor}} :
    \E mask \in {{kError}, {kAcceptor}, kFstProperties} :
        /\ Do(Call("SetProperties", h, props, mask, ""),
              SetProperties(World, h, props, mask))
        /\ UNCHANGED <<origin, views>>

DoAddState ==
    \E h \in UserHandles :
        /\ NumStates(World, h) < MaxStates
        /\ Mutate("AddState", h, AddState(World, h))

DoAddStates ==
    \E h \in UserHandles : \E n \in 2 .. MaxStates :
        /\ NumStates(World, h) + n <= MaxStates
        /\ Mutate("AddStates", h, AddStates(World, h, n))

DoAddArc ==
    \E h \in UserHandles : \E s \in StateIds(World, h) :
    \E arc \in FamArcSet(LabelPairs, ArcWeights, NumStates(World, h)) :
        /\ NumArcs(World, h, s) < MaxArcs
        /\ Mutate("AddArc", h, AddArc(World, h, s, arc))

DoDeleteStates ==
    \E h \in UserHandles : \E dstates \in SUBSET StateIds(World, h) :
        /\ Do([Call("DeleteStates", h, {}, {}, "") EXCEPT !.props = dstates],
              DeleteStates(World, h, dstates))
        /\ UNCHANGED <<origin, views>>

DoDeleteAllStates ==
    \E h \in UserHandles :
        Mutate("DeleteAllStates", h, DeleteAllStates(World, h))

DoDeleteArcs ==
    \E h \in UserHandles : \E s \in StateIds(World, h) :
    \E n \in 1 .. NumArcs(World, h, s) :
        Mutate("DeleteArcs", h, DeleteArcs(World, h, s, n))

DoDeleteAllArcs ==
    \E h \in UserHandles : \E s \in StateIds(World, h) :
        Mutate("DeleteAllArcs", h, DeleteAllArcs(World, h, s))

DoReserveStates ==
    \E h \in UserHandles :
        Mutate("ReserveStates", h, ReserveStates(World, h, MaxStates))

DoSetInputSymbols ==
    \E h \in UserHandles : \E isyms \in SymbolTables \cup {NoSymbols} :
        Mutate("SetInputSymbols", h, SetInputSymbols(World, h, isyms))

DoSetOutputSymbols ==
    \E h \in UserHandles : \E osyms \in SymbolTables \cup {NoSymbols} :
        Mutate("SetOutputSymbols", h, SetOutputSymbols(World, h, osyms))

\* The handle a new object gets: the lowest one not in use.
FreeHandle == CHOOSE g \in Handles \ DOMAIN impl : \A x \in Handles \ DOMAIN impl : g <= x

WithOrigin(g, o) == [x \in DOMAIN origin \cup {g} |-> IF x = g THEN o ELSE origin[x]]

\* Copy(safe): a second handle on the automaton of h.
DoCopy ==
    \E h \in UserHandles : \E safe \in BOOLEAN : \E fresh \in BOOLEAN :
        /\ Handles \ DOMAIN impl # {}
        /\ safe \/ ~fresh
        /\ Do(Call("Copy", h, {FreeHandle}, {}, ""),
              CopyFst(World, h, FreeHandle, safe, fresh))
        /\ origin' = WithOrigin(FreeHandle, [src |-> h, safe |-> safe])
        /\ UNCHANGED views

\* The destructor of handle h.
DoDestroy ==
    \E h \in UserHandles :
        /\ Do(Call("Destroy", h, {}, {}, ""), DestroyFst(World, h))
        /\ origin' = [x \in DOMAIN origin \ {h} |->
                         IF origin[x].src = h THEN NoOrigin ELSE origin[x]]
        /\ UNCHANGED views

DoClosure ==
    \E h \in UserHandles : \E closure_type \in ClosureTypes :
        /\ calls = <<>>
        /\ Do(Call("Closure", h, {}, {}, closure_type), Closure(World, h, closure_type))
        /\ UNCHANGED <<origin, views>>

DoInvert ==
    \E h \in UserHandles :
        /\ Do(Call("Invert", h, {}, {}, ""), Invert(World, h))
        /\ UNCHANGED <<origin, views>>

\* VectorFst<Arc> ofst: a new handle g on a new empty store.
NewVectorFst(w, g) ==
    LET id == FreshId(w)
    IN [impl |-> [x \in DOMAIN w.impl \cup {g} |-> IF x = g THEN id ELSE w.impl[x]],
        store |-> [j \in DOMAIN w.store \cup {id} |->
                      IF j = id THEN EmptyImpl ELSE w.store[j]]]

\* Invert(ifst, &ofst) with ofst a newly made automaton or a cheap copy of
\* ifst (recorded in type); the call records ofst in props.
DoInvertInto ==
    \E h \in UserHandles : \E alias \in BOOLEAN :
        /\ Handles \ DOMAIN impl # {}
        /\ calls = <<>>
        /\ Do(Call("InvertInto", h, {FreeHandle}, {}, IF alias THEN "copy" ELSE "new"),
              InvertInto(IF alias THEN CopyFst(World, h, FreeHandle, FALSE, FALSE)
                         ELSE NewVectorFst(World, FreeHandle), h, FreeHandle))
        /\ origin' = WithOrigin(FreeHandle, NoOrigin)
        /\ UNCHANGED views

\* new InvertFst(fst): the view's own handle is an unsafe copy of the source.
DoInvertFst ==
    \E h \in UserHandles :
        /\ Handles \ DOMAIN impl # {}
        /\ views = <<>>
        /\ Do(Call("InvertFst", h, {}, {}, ""),
              CopyFst(World, h, FreeHandle, FALSE, FALSE))
        /\ views' = Append(views, InvertFst(World, h, FreeHandle))
        /\ origin' = WithOrigin(FreeHandle, [src |-> h, safe |-> FALSE])

\* new ClosureFst(fst, closure_type)
DoClosureFst ==
    \E h \in UserHandles : \E closure_type \in ClosureTypes :
        /\ Handles \ DOMAIN impl # {}
        /\ views = <<>>
        /\ Do(Call("ClosureFst", h, {}, {}, closure_type),
              CopyFst(World, h, FreeHandle, FALSE, FALSE))
        /\ views' = Append(views, ClosureFst(World, h, FreeHandle, closure_type))
        /\ origin' = WithOrigin(FreeHandle, [src |-> h, safe |-> FALSE])

\* The number of queries made on the views from the i-th on.
RECURSIVE ViewQueries(_)
ViewQueries(i) ==
    IF i > Len(views) THEN 0 ELSE views[i].lazy.queries + ViewQueries(i + 1)

\* A query on view i that leaves it as v2.
DoView(i, v2) ==
    /\ ViewQueries(1) < MaxViewOps
    /\ views' = [views EXCEPT ![i] = v2]
    /\ UNCHANGED <<impl, store, origin, first, before, calls, cursor, io, symtab, threads>>

DoViewFinal ==
    \E i \in DOMAIN views : \E s \in ViewStateIds(World, views[i]) :
        DoView(i, ViewQuery(World, views[i], s, "Final"))

DoViewArcs ==
    \E i \in DOMAIN views : \E s \in ViewStateIds(World, views[i]) :
        DoView(i, ViewQuery(World, views[i], s, "Arcs"))

\* view.Copy(safe): an unsafe copy is another handle on the same view object;
\* a safe copy is a view object of its own.
DoViewCopy ==
    \E i \in DOMAIN views : \E safe \in BOOLEAN : \E preserve \in BOOLEAN :
        /\ preserve => safe
        /\ IF safe
           THEN /\ Len(views) < MaxViews
                /\ views' = Append(views, ViewCopy(views[i], preserve))
           ELSE /\ views[i].lazy.handles < MaxViews
                /\ views' = [views EXCEPT ![i].lazy.handles = @ + 1]
        /\ UNCHANGED <<impl, store, origin, first, before, calls, cursor, io, symtab, threads>>

\* A call on the cursor that leaves the heap w2 and the cursor c2.
DoCursor(w2, c2) ==
    /\ c2.steps <= MaxCursorOps
    /\ impl' = w2.impl
    /\ store' = w2.store
    /\ before' = World
    /\ cursor' = c2
    /\ UNCHANGED <<origin, views, first, calls, io, symtab, threads>>

CursorUsable == cursor.live /\ cursor.h \in UserHandles

DoMutableArcIterator ==
    \E h \in UserHandles : \E s \in StateIds(World, h) :
        /\ ~cursor.live
        /\ LET w2 == InitMutableArcIterator(World, h, s)
           IN DoCursor(w2, MutableArcIterator(World, w2, h, s))

DoCursorSetValue ==
    \E lp \in LabelPairs : \E weight \in ArcWeights :
        /\ CursorUsable
        /\ ~CursorDone(World, cursor)
        /\ LET old == Arcs(World, cursor.h, cursor.s)[cursor.i + 1]
               w2 == SetValue(World, cursor.h, cursor.s, cursor.i,
                              MakeArc(lp[1], lp[2], weight, old.nextstate))
           IN DoCursor(w2, CursorAfter(cursor, World, w2, cursor.i, "SetValue"))

DoCursorNext ==
    /\ CursorUsable
    /\ ~CursorDone(World, cursor)
    /\ DoCursor(World, CursorAfter(cursor, World, World, CursorNext(cursor), "Next"))

DoCursorReset ==
    /\ CursorUsable
    /\ DoCursor(World, CursorAfter(cursor, World, World, CursorReset(cursor), "Reset"))

DoCursorSeek ==
    \E a \in 0 .. MaxArcs :
        /\ CursorUsable
        /\ a <= NumArcs(World, cursor.h, cursor.s)
        /\ DoCursor(World, CursorAfter(cursor, World, World, CursorSeek(cursor, a), "Seek"))

\* The files and streams a read can meet.
Files == [source : {"", "a.fst"}, can_open : BOOLEAN, strm : Streams]

\* A read call: its arguments and what it returned.
DoRead(call, result) ==
    /\ io.op = "file"
    /\ io' = [io EXCEPT !.op = "read", !.call = call, !.result = result]
    /\ UNCHANGED <<impl, store, origin, views, first, before, calls, cursor,
                   symtab, threads>>

DoReadStream ==
    \E header \in FstHeaders \cup {NoHeader} :
        DoRead([form |-> "stream", header |-> header, convert |-> FALSE,
                convert_type |-> ""],
               MutableFstRead(io.file.strm, header))

DoReadFile ==
    \E convert \in BOOLEAN : \E convert_type \in TypeTags :
        DoRead([form |-> "file", header |-> NoHeader, convert |-> convert,
                convert_type |-> convert_type],
               MutableFstReadFile(io.file, convert, convert_type))

\* The arguments a reader or a writer is constructed with: the two flags (the
\* default constructor) or a separator and a pair of brackets.
CodecArgs ==
    [form : {"flags"}, separator : {<<>>, <<",">>, <<",", ";">>},
     parentheses : {<<>>, <<"(">>, <<"(", ")">>, <<"(", ")", "x">>}]
    \cup [form : {"explicit"}, separator : {<<",">>},
          parentheses : {<<NUL, NUL>>, <<"(", NUL>>, <<NUL, ")">>, <<"(", ")">>}]

CodecConfig(args) ==
    IF args.form = "flags"
    THEN CompositeWeightIOFlags(args.separator, args.parentheses)
    ELSE CompositeWeightIO(args.separator[1], args.parentheses[1], args.parentheses[2])

\* The inputs a reader meets.
Texts ==
    {<<>>, <<" ">>, <<"7">>, <<" ", "(", "7">>, <<"(", " ">>, <<")">>,
     <<"1", ",", "2">>, <<"(", "1", ",", "2", ")">>, <<"(", "1", ",", "2">>,
     <<"(", "1", ",", "2", ")", "x">>}
CompWeights == {0, 7, 12}

\* A call on the codec that leaves it as r2.
DoCodec(op, r2, written, value, nest) ==
    /\ io.op \in {"ctor", "WriteBegin", "WriteEnd", "ReadBegin", "ReadEnd", "clear"}
    /\ io.steps < MaxCodecOps
    /\ io' = [io EXCEPT !.op = op, !.r = r2, !.prev = io.r, !.steps = @ + 1,
                        !.written = written, !.value = value, !.nest = nest]
    /\ UNCHANGED <<impl, store, origin, views, first, before, calls, cursor,
                   symtab, threads>>

DoWriteBegin ==
    /\ io.op # "" /\ io.r.kind = "writer"
    /\ DoCodec("WriteBegin", WriteBegin(io.r), <<>>, <<>>, io.nest + 1)

\* WriteEnd closes a weight the caller has begun.
DoWriteEnd ==
    /\ io.op # "" /\ io.r.kind = "writer" /\ io.nest > 0
    /\ DoCodec("WriteEnd", WriteEnd(io.r), <<>>, <<>>, io.nest - 1)

DoReadBegin ==
    /\ io.op # "" /\ io.r.kind = "reader"
    /\ DoCodec("ReadBegin", ReadBegin(io.r), <<>>, <<>>, io.nest)

DoReadEnd ==
    /\ io.op # "" /\ io.r.kind = "reader"
    /\ DoCodec("ReadEnd", ReadEnd(io.r), <<>>, <<>>, io.nest)

\* ReadBegin one read at a time: pc is "call" before the call, "get" at the
\* head of the do-while, "paren" after it and "done" at the return.
DoReadStep(pc2, r2, reads2) ==
    /\ io' = [io EXCEPT !.pc = pc2, !.r = r2, !.reads = reads2]
    /\ UNCHANGED <<impl, store, origin, views, first, before, calls, cursor,
                   symtab, threads>>

DoReadBeginCall ==
    /\ io.op = "ReadBeginSteps" /\ io.pc = "call"
    /\ DoReadStep("get", io.r, 0)

\* One pass of the loop: c_ = istrm_.get(), then the test isspace(c_).
DoReadBeginGet ==
    /\ io.op = "ReadBeginSteps" /\ io.pc = "get"
    /\ io.reads < MaxReads
    /\ LET g == IstreamGet(io.r.strm)
       IN DoReadStep(IF isspace(g.c) THEN "get" ELSE "paren",
                     [io.r EXCEPT !.strm = g.strm, !.c_ = g.c], io.reads + 1)

DoReadBeginParen ==
    /\ io.op = "ReadBeginSteps" /\ io.pc = "paren"
    /\ DoReadStep("done", ReadBeginParen(io.r), io.reads)

\* The caller resets a failed stream: strm.clear().
DoStreamClear ==
    /\ io.op \in {"ctor", "WriteBegin", "WriteEnd", "ReadBegin", "ReadEnd"}
    /\ StreamFail(io.r.strm)
    /\ io.steps < MaxCodecOps
    /\ io' = [io EXCEPT !.op = "clear", !.r.strm = StreamClear(@, {}), !.prev = io.r,
                        !.steps = @ + 1, !.resets = @ + 1]
    /\ UNCHANGED <<impl, store, origin, views, first, before, calls, cursor,
                   symtab, threads>>

DoWritePair ==
    \E w1 \in CompWeights : \E w2 \in CompWeights :
        /\ io.op = "ctor" /\ io.r.kind = "writer"
        /\ DoCodec("WritePair", WritePair(io.r, w1, w2), <<w1, w2>>, <<>>, io.nest)

DoReadPair ==
    /\ io.op = "ctor" /\ io.r.kind = "reader"
    /\ LET p == ReadPair(io.r) IN DoCodec("ReadPair", p.r, <<>>, p.value, io.nest)

\* The text a writer produced, read by a reader of the same configuration.
DoReadBack ==
    /\ io.op = "WritePair"
    /\ LET r0 == CompositeWeightReader(CodecConfig(io.args),
                                       MakeStream(io.r.strm.text, {}))
           p == ReadPair(r0)
       IN io' = [io EXCEPT !.op = "ReadBack", !.r = p.r, !.prev = r0,
                           !.steps = @ + 1, !.value = p.value]
    /\ UNCHANGED <<impl, store, origin, views, first, before, calls, cursor,
                   symtab, threads>>

\* A call that involves the caller's tables: it leaves the heap w2 and the
\* tables t2.
DoSymbols(call, w2, t2) ==
    /\ Len(calls) < MaxSymbolOps
    /\ impl' = w2.impl
    /\ store' = w2.store
    /\ before' = World
    /\ calls' = Append(calls, call)
    /\ symtab' = t2
    /\ UNCHANGED <<origin, views, first, cursor, io, threads>>

DoMutableInputSymbols ==
    \E h \in UserHandles :
        LET w2 == MutableInputSymbols(World, h)
        IN DoSymbols(Call("MutableInputSymbols", h, {}, {}, ""), w2,
                     [symtab EXCEPT !.ref = MutableSymbolsRef(w2, h, "i")])

DoMutableOutputSymbols ==
    \E h \in UserHandles :
        LET w2 == MutableOutputSymbols(World, h)
        IN DoSymbols(Call("MutableOutputSymbols", h, {}, {}, ""), w2,
                     [symtab EXCEPT !.ref = MutableSymbolsRef(w2, h, "o")])

\* The caller changes the table it borrowed.
DoWriteSymbols ==
    \E t \in SymbolTables :
        /\ symtab.ref # NoRef
        /\ symtab.ref.id \in DOMAIN store
        /\ WriteSymbolTable(World, symtab.ref, t) # World
        /\ DoSymbols(Call("WriteSymbols", symtab.ref.h, {}, {}, t),
                     WriteSymbolTable(World, symtab.ref, t), symtab)

\* SetInputSymbols / SetOutputSymbols given the caller's own table, or nullptr.
DoSetInputSymbolsOfCaller ==
    \E h \in UserHandles : \E isyms \in {NoSymbols, CallerTable} :
        DoSymbols(Call("SetInputSymbols", h, {}, {}, isyms),
                  SetInputSymbols(World, h, isyms), symtab)

DoSetOutputSymbolsOfCaller ==
    \E h \in UserHandles : \E osyms \in {NoSymbols, CallerTable} :
        DoSymbols(Call("SetOutputSymbols", h, {}, {}, osyms),
                  SetOutputSymbols(World, h, osyms), symtab)

\* The caller changes its own table.
DoWriteCallerTable ==
    \E t \in SymbolTables \ {symtab.arg} :
        DoSymbols(Call("WriteCallerTable", 0, {}, {}, t), World,
                  [symtab EXCEPT !.prev = symtab.arg, !.arg = t])

\* --------------------------------------------------------- specifications
\* ------------------------------------------------------------- threads
\* Thread t mutates handle t. A mutating call is four steps: the test on
\* entry (Unique, or for SetProperties first the extrinsic bits), the deep
\* copy, the switch of the handle to the copy, and the write.
Threads == {1, 2}

IdleThread ==
    [pc |-> "idle", op |-> "", props |-> {}, mask |-> {}, checked |-> FALSE,
     copy |-> EmptyImpl, landed |-> {}, done |-> 0]

\* No thread is in the middle of a call.
NoThreads == [t \in Threads |-> IdleThread]

\* The calls a thread makes.
ThreadCalls ==
    {[op |-> "AddState", props |-> {}, mask |-> {}],
     [op |-> "SetProperties", props |-> {kError}, mask |-> {kError}],
     [op |-> "SetProperties", props |-> {}, mask |-> {kAcceptor}],
     [op |-> "SetProperties", props |-> {kAcceptor}, mask |-> kFstProperties]}

\* Whether the call makes the mutate check at all: every mutator does, but
\* SetProperties only if an extrinsic bit of mask would change.
MakesMutateCheck(w, h, call) ==
    \/ call.op # "SetProperties"
    \/ ImplProperties(GetImpl(w, h), kExtrinsicProperties \cap call.mask)
           # (call.props \cap (kExtrinsicProperties \cap call.mask))

\* GetMutableImpl()->AddState() or ->SetProperties(props, mask).
ThreadApply(m, call) ==
    IF call.op = "AddState" THEN ImplAddState(m)
    ELSE ImplSetProperties(m, call.props, call.mask)

\* The other handles that reference the store h references.
OtherSharers(w, h) == {g \in DOMAIN w.impl \ {h} : w.impl[g] = w.impl[h]}

ThreadStep(w2, th2) ==
    /\ impl' = w2.impl
    /\ store' = w2.store
    /\ threads' = th2
    /\ UNCHANGED <<origin, views, first, before, calls, cursor, io, symtab>>

\* Entry of a mutator: the test of the extrinsic bits and of Unique().
DoThreadCheck ==
    \E t \in Threads : \E call \in ThreadCalls :
        /\ threads[t].pc = "idle"
        /\ threads[t].done < MaxThreadOps
        /\ LET checked == MakesMutateCheck(World, t, call)
           IN ThreadStep(World,
                  [threads EXCEPT ![t] =
                      [@ EXCEPT !.pc = IF checked /\ ~Unique(World, t)
                                       THEN "copy" ELSE "write",
                                !.op = call.op, !.props = call.props,
                                !.mask = call.mask, !.checked = checked]])

\* The stores a deep copy of handle t's store can read: the store as it is
\* or, if another thread is about to write the same store, as that write
\* leaves it (the copy and the write are not ordered).
ThreadReads(t) ==
    {GetImpl(World, t)} \cup
    {ThreadApply(GetImpl(World, t), threads[u]) :
        u \in {x \in Threads \ {t} :
                  threads[x].pc = "write" /\ impl[x] = impl[t]}}

\* std::make_shared<Impl>(*this).
DoThreadCopy ==
    \E t \in Threads : \E m \in ThreadReads(t) :
        /\ threads[t].pc = "copy"
        /\ ThreadStep(World,
               [threads EXCEPT ![t] = [@ EXCEPT !.pc = "switch", !.copy = ImplCopy(m)]])

\* A switch that leaves the handle on the shared store.
DoThreadSwitchStays ==
    \E t \in Threads :
        /\ threads[t].pc = "switch"
        /\ ThreadStep(World,
               [threads EXCEPT ![t] = [@ EXCEPT !.pc = "write", !.copy = EmptyImpl]])

\* SetImpl: the handle leaves the shared store for the copy.
DoThreadSwitch ==
    \E t \in Threads :
        /\ threads[t].pc = "switch"
        /\ ThreadStep(SetImpl(World, t, threads[t].copy),
               [threads EXCEPT ![t] = [@ EXCEPT !.pc = "write", !.copy = EmptyImpl]])

\* GetMutableImpl()->...: the write, on the store the handle references now.
DoThreadWrite ==
    \E t \in Threads :
        /\ threads[t].pc = "write"
        /\ ThreadStep(PutImpl(World, t, ThreadApply(GetImpl(World, t), threads[t])),
               [threads EXCEPT ![t] =
                   [@ EXCEPT !.pc = "idle", !.landed = OtherSharers(World, t),
                             !.done = @ + 1]])

\* One handle on automaton m, or two handles sharing it.
InitWith(m, shared, safe) ==
    /\ impl = IF shared THEN [h \in {1, 2} |-> 1] ELSE [h \in {1} |-> 1]
    /\ store = [id \in {1} |-> m]
    /\ origin = IF shared
                THEN [h \in {1, 2} |-> IF h = 1 THEN NoOrigin
                                       ELSE [src |-> 1, safe |-> safe]]
                ELSE [h \in {1} |-> NoOrigin]
    /\ views = <<>>
    /\ first = World
    /\ before = World
    /\ calls = <<>>
    /\ cursor = NoCursor
    /\ symtab = NoSymtab
    /\ threads = NoThreads

Init ==
    \E m \in Seeds : \E shared \in BOOLEAN : \E safe \in BOOLEAN :
        /\ shared \/ ~safe
        /\ shared => MaxHandles >= 2
        /\ InitWith(m, shared, safe)
        /\ io = NoIo

Next ==
    \/ DoSetStart
    \/ DoSetFinal
    \/ DoSetProperties
    \/ DoAddState
    \/ DoAddStates
    \/ DoAddArc
    \/ DoDeleteStates
    \/ DoDeleteAllStates
    \/ DoDeleteArcs
    \/ DoDeleteAllArcs
    \/ DoReserveStates
    \/ DoSetInputSymbols
    \/ DoSetOutputSymbols
    \/ DoCopy
    \/ DoDestroy

Spec == Init /\ [][Next]_vars

\* Closure applied to every automaton of the family, through a handle that
\* holds the store alone or shares it.
InitClosure ==
    \E m \in ClosureFamily({<<"syms_x", NoSymbols>>}) : \E shared \in BOOLEAN :
        InitWith(m, shared, FALSE) /\ io = NoIo

NextClosure == DoClosure

SpecClosure == InitClosure /\ [][NextClosure]_vars

\* Cached bit b is true of automaton m (for kAcyclic: every arc leads to a
\* state with a higher id).
BitHolds(m, b) ==
    \A s \in ImplStateIds(m) : \A i \in DOMAIN ImplArcs(m, s) :
        LET arc == ImplArcs(m, s)[i]
        IN /\ b = kAcceptor => arc.ilabel = arc.olabel
           /\ b = kAcyclic => arc.nextstate > s
           /\ b = kILabelSorted =>
                  \A j \in DOMAIN ImplArcs(m, s) :
                      i < j => arc.ilabel <= ImplArcs(m, s)[j].ilabel

\* Closure applied to the seed automata and the dense one, with every set of
\* cached bits that is true of the automaton.
InitClosureBits ==
    \E m \in Seeds \cup {DenseImpl} : \E shared \in BOOLEAN :
    \E P \in SUBSET {kError, kAcceptor, kAcyclic, kILabelSorted} :
        /\ \A b \in P : BitHolds(m, b)
        /\ InitWith([m EXCEPT !.properties = kStaticProperties \cup P], shared, FALSE)
        /\ io = NoIo

SpecClosureBits == InitClosureBits /\ [][NextClosure]_vars

\* Invert and InvertFst applied to every automaton of the family.
InitInvert ==
    \E m \in InvertFamily({<<NoSymbols, NoSymbols>>, <<"syms_x", NoSymbols>>,
                            <<NoSymbols, "syms_y">>, <<"syms_x", "syms_y">>}) :
        InitWith(m, FALSE, FALSE) /\ io = NoIo

NextInvert ==
    \/ DoInvert
    \/ DoInvertFst
    \/ DoSetInputSymbols
    \/ DoSetOutputSymbols

SpecInvert == InitInvert /\ [][NextInvert]_vars

\* A cursor on every seed automaton, with copies of the automaton made and
\* destroyed while the cursor is in use.
NextCursor ==
    \/ DoMutableArcIterator
    \/ DoCursorSetValue
    \/ DoCursorNext
    \/ DoCursorReset
    \/ DoCursorSeek
    \/ DoCopy
    \/ DoDestroy

SpecCursor == Init /\ [][NextCursor]_vars

\* One read, in either form, of every file.
InitRead ==
    /\ InitWith(EmptyImpl, FALSE, FALSE)
    /\ \E file \in Files :
           io = [op |-> "file", file |-> file,
                 call |-> [form |-> "", header |-> NoHeader, convert |-> FALSE,
                           convert_type |-> ""],
                 result |-> ReadResult(nullptr, <<>>, <<>>)]

NextRead == DoReadStream \/ DoReadFile

SpecRead == InitRead /\ [][NextRead]_vars

\* Every reader and writer a caller can construct, on a stream that is good
\* or at its end.
InitCodec ==
    /\ InitWith(EmptyImpl, FALSE, FALSE)
    /\ \E kind \in {"reader", "writer"} : \E args \in CodecArgs :
       \E text \in Texts : \E state \in {{}, {eofbit}} :
           /\ kind = "writer" => text = <<>>
           /\ io = [op |-> "ctor", args |-> args,
                    strm0 |-> MakeStream(text, state),
                    r |-> CompositeWeightCodec(kind, CodecConfig(args),
                                               MakeStream(text, state)),
                    prev |-> CompositeWeightCodec(kind, CodecConfig(args),
                                                  MakeStream(text, state)),
                    resets |-> 0, steps |-> 0, written |-> <<>>, value |-> <<>>,
                    nest |-> 0]

NextCodec ==
    \/ DoWriteBegin
    \/ DoWriteEnd
    \/ DoReadBegin
    \/ DoReadEnd
    \/ DoStreamClear
    \/ DoWritePair
    \/ DoReadPair
    \/ DoReadBack

SpecCodec == InitCodec /\ [][NextCodec]_vars

\* The inputs of ReadBegin: the texts above and texts that begin with, or
\* are nothing but, white space, on a stream in any state.
ReadTexts == Texts \cup {<<" ", "\t">>, <<"\n", " ", "\t">>, <<"\t", " ", "(", "7">>}
StreamStates == {{}, {eofbit}, {failbit}, {badbit}, {eofbit, failbit}}

\* Every reader a caller can construct, before its ReadBegin.
InitReadBegin ==
    /\ InitWith(EmptyImpl, FALSE, FALSE)
    /\ \E args \in CodecArgs : \E text \in ReadTexts : \E state \in StreamStates :
           io = [op |-> "ReadBeginSteps", pc |-> "call", reads |-> 0,
                 r |-> CompositeWeightReader(CodecConfig(args), MakeStream(text, state)),
                 r0 |-> CompositeWeightReader(CodecConfig(args), MakeStream(text, state))]

NextReadBegin == DoReadBeginCall \/ DoReadBeginGet \/ DoReadBeginParen

\* The thread that called ReadBegin keeps running it.
SpecReadBegin == InitReadBegin /\ [][NextReadBegin]_vars /\ WF_vars(NextReadBegin)

\* Deletion of states of every seed automaton and of the dense one.
InitDelete ==
    \E m \in Seeds \cup {DenseImpl} : \E shared \in BOOLEAN :
        InitWith(m, shared, FALSE) /\ io = NoIo

NextDelete == DoDeleteStates \/ DoDeleteAllStates

SpecDelete == InitDelete /\ [][NextDelete]_vars

\* The symbol-table accessors on every seed automaton and on the dense one,
\* with the caller changing its own table and the table it borrowed.
InitSymbols ==
    \E m \in Seeds \cup {DenseImpl} : \E shared \in BOOLEAN :
        InitWith(m, shared, FALSE) /\ io = NoIo

NextSymbols ==
    \/ DoMutableInputSymbols
    \/ DoMutableOutputSymbols
    \/ DoWriteSymbols
    \/ DoSetInputSymbolsOfCaller
    \/ DoSetOutputSymbolsOfCaller
    \/ DoWriteCallerTable
    \/ DoCopy

SpecSymbols == InitSymbols /\ [][NextSymbols]_vars

\* A lazy inversion or closure view of every seed automaton, queried and
\* copied while the caller changes the source through its own handle.
InitLazy ==
    \E m \in Seeds : InitWith(m, FALSE, FALSE) /\ io = NoIo

NextLazy ==
    \/ DoInvertFst
    \/ DoClosureFst
    \/ DoViewFinal
    \/ DoViewArcs
    \/ DoViewCopy
    \/ DoSetFinal
    \/ DoAddArc

SpecLazy == InitLazy /\ [][NextLazy]_vars

\* The three forms of inversion applied to every automaton of the family.
NextInvertForms == DoInvertInto \/ DoInvert \/ DoInvertFst

SpecInvertForms == InitInvert /\ [][NextInvertForms]_vars

\* Two threads, each mutating its own handle of one shared store.
InitThreads ==
    \E m \in Seeds \cup {DenseImpl} : InitWith(m, TRUE, FALSE) /\ io = NoIo

NextThreads == DoThreadCheck \/ DoThreadCopy \/ DoThreadSwitch \/ DoThreadWrite

SpecThreads == InitThreads /\ [][NextThreads]_vars

\* ------------------------------------------------------------------ claims
MaxPow == 2

Last == calls[Len(calls)]
Called(op) == calls # <<>> /\ Last.op = op

\* The mutating calls C1 names.
C1Mutators ==
    {"SetStart", "SetFinal", "AddState", "AddStates", "AddArc", "DeleteStates",
     "DeleteAllStates", "DeleteArcs", "DeleteAllArcs", "SetInputSymbols",
     "SetOutputSymbols"}

\* Every call made so far is one of ops, through handle h.
AllCallsThrough(h, ops) ==
    \A i \in DOMAIN calls : calls[i].h = h /\ calls[i].op \in ops

\* C1: a mutating call through one handle leaves the start state, the states
\* (count, final weights, arc lists) and the symbol tables seen through every
\* other handle as they were before the call; and so does any sequence of
\* mutating calls through one handle, for the handles of the initial state.
C1_CopyOnWriteIsolation ==
    /\ (calls # <<>> /\ Last.op \in C1Mutators) =>
           \A g \in DOMAIN before.impl \ {Last.h} :
               g \in DOMAIN impl /\ View(World, g) = View(before, g)
    /\ \A h \in DOMAIN first.impl :
           AllCallsThrough(h, C1Mutators) =>
               \A g \in DOMAIN first.impl \ {h} :
                   g \in DOMAIN impl /\ View(World, g) = View(first, g)

\* Two mutating calls through handle 1 of a store shared with handle 2, the
\* last one a DeleteStates that changed what handle 1 sees.
C1_Witness ==
    /\ Len(calls) = 2 /\ AllCallsThrough(1, C1Mutators)
    /\ Last.op = "DeleteStates"
    /\ DOMAIN first.impl = {1, 2} /\ first.impl[1] = first.impl[2]
    /\ View(World, 1) # View(before, 1)
    /\ View(before, 1) # View(first, 1)

\* What C2 calls observable: the start state, the final weights and the arcs.
Observable(w, h) == [start |-> Start(w, h), states |-> GetImpl(w, h).states]

C2Mutators == C1Mutators \cup {"SetProperties", "ReserveStates"}

\* C2: when b was made by a.Copy(safe = true), a mutating call through b
\* leaves a's start, final weights and arcs unchanged, and a mutating call
\* through a leaves b's unchanged, whatever calls came before.
C2_CopyIndependence ==
    \A a \in DOMAIN impl : \A b \in DOMAIN impl :
        (/\ origin[b] = [src |-> a, safe |-> TRUE]
         /\ calls # <<>> /\ Last.op \in C2Mutators) =>
            /\ Last.h = b => Observable(World, a) = Observable(before, a)
            /\ Last.h = a => Observable(World, b) = Observable(before, b)

\* Handle 2 is a safe copy of handle 1 that still shared its store; a call
\* through 1 and then a call through 2 each changed what its own handle sees.
C2_Witness ==
    /\ Len(calls) = 2 /\ 2 \in DOMAIN impl /\ 1 \in DOMAIN impl
    /\ origin[2] = [src |-> 1, safe |-> TRUE]
    /\ first.impl = [h \in {1, 2} |-> 1]
    /\ calls[1].h = 1 /\ calls[1].op = "AddArc"
    /\ calls[2].h = 2 /\ calls[2].op = "SetFinal"
    /\ Observable(World, 2) # Observable(before, 2)
    /\ Observable(World, 1) # Observable(first, 1)

\* C3: Closure appends to every state that existed before the call and had a
\* final weight w other than Zero exactly the arc (0, 0, w, old start), and
\* appends nothing to a state whose final weight was Zero.
C3_ClosureFinalArcs ==
    Called("Closure") =>
        LET h == Last.h
            start == Start(before, h)
        IN \A s \in StateIds(before, h) :
               Arcs(World, h, s) =
                   IF Final(before, h, s) # Zero
                   THEN Append(Arcs(before, h, s),
                               MakeArc(0, 0, Final(before, h, s), start))
                   ELSE Arcs(before, h, s)

\* A closure of an automaton with a start state, a final state that already
\* had an arc and a state that is not final.
C3_Witness ==
    /\ Called("Closure")
    /\ Start(before, Last.h) # kNoStateId
    /\ \E s \in StateIds(before, Last.h) :
           Final(before, Last.h, s) = 2 /\ Arcs(before, Last.h, s) # <<>>
    /\ \E s \in StateIds(before, Last.h) :
           Final(before, Last.h, s) = Zero /\ Arcs(before, Last.h, s) # <<>>

\* C4: CLOSURE_STAR on n states with start q adds exactly the state n, makes
\* it the start, final with weight One, with the one arc (0, 0, One, q) when
\* there was a start and no arc otherwise; CLOSURE_PLUS keeps the state count
\* and the start state.
C4_ClosureStarState ==
    Called("Closure") =>
        LET h == Last.h
            n == NumStates(before, h)
            q == Start(before, h)
        IN IF Last.type = CLOSURE_STAR
           THEN /\ NumStates(World, h) = n + 1
                /\ Start(World, h) = n
                /\ Final(World, h, n) = One
                /\ Arcs(World, h, n) =
                       IF q # kNoStateId THEN <<MakeArc(0, 0, One, q)>> ELSE <<>>
           ELSE /\ NumStates(World, h) = n
                /\ Start(World, h) = q

\* A star closure of a two state automaton whose start is state 1.
C4_Witness ==
    /\ Called("Closure") /\ Last.type = CLOSURE_STAR
    /\ NumStates(before, Last.h) = 2 /\ Start(before, Last.h) = 1
    /\ NumStates(World, Last.h) = 3

\* The sum (Plus) of a set of weights (Plus is idempotent).
RECURSIVE PlusAll(_)
PlusAll(S) ==
    IF S = {} THEN Zero
    ELSE LET x == CHOOSE y \in S : TRUE IN Plus(x, PlusAll(S \ {x}))

RECURSIVE Power(_, _)
Power(weight, k) == IF k = 0 THEN One ELSE Times(weight, Power(weight, k - 1))

\* The number of symbols an arc reads: none for an epsilon input label.
Reads(arc) == IF arc.ilabel = 0 THEN 0 ELSE 1

\* The places <<state, position>> of the arcs of m.
ArcPlaces(m) ==
    UNION {{<<p, i>> : i \in DOMAIN ImplArcs(m, p)} : p \in ImplStateIds(m)}

ArcAt(m, place) == ImplArcs(m, place[1])[place[2]]

\* The total weight of the paths of exactly j arcs of automaton m that lead
\* from its start state to state s and read k symbols.
RECURSIVE PathWeight(_, _, _, _)
PathWeight(m, j, s, k) ==
    IF j = 0 THEN (IF s = m.start /\ k = 0 THEN One ELSE Zero)
    ELSE PlusAll({Times(PathWeight(m, j - 1, pl[1], k - Reads(ArcAt(m, pl))),
                        ArcAt(m, pl).weight) :
                  pl \in {x \in ArcPlaces(m) :
                             ArcAt(m, x).nextstate = s /\ Reads(ArcAt(m, x)) <= k}})

\* The weight with which m accepts the string of k symbols a, over the paths
\* of at most len arcs (Zero: not accepted).
AcceptWeight(m, k, len) ==
    PlusAll({Times(PathWeight(m, x[1], x[2], k), ImplFinal(m, x[2])) :
                x \in (0 .. len) \X ImplStateIds(m)})

\* Every arc of m reads and writes the symbol a (label 1).
OnlySymbolA(m) ==
    \A s \in ImplStateIds(m) : \A i \in DOMAIN ImplArcs(m, s) :
        ImplArcs(m, s)[i].ilabel = 1 /\ ImplArcs(m, s)[i].olabel = 1

\* m accepts the one symbol string a, and no other string.
AcceptsExactlyA(m) ==
    /\ m.start # kNoStateId
    /\ OnlySymbolA(m)
    /\ AcceptWeight(m, 1, 2 * MaxStates) # Zero
    /\ \A k \in (0 .. (2 * MaxStates)) \ {1} : AcceptWeight(m, k, 2 * MaxStates) = Zero

\* C5: for an automaton that accepts exactly the string a, with weight w, the
\* star closure accepts a^k with weight w^k for every k >= 0 and the plus
\* closure accepts a^k with weight w^k for k >= 1 and not the empty string
\* (k up to MaxPow).
C5_ClosureAcceptedPaths ==
    (Called("Closure") /\ AcceptsExactlyA(GetImpl(before, Last.h))) =>
        LET weight == AcceptWeight(GetImpl(before, Last.h), 1, 2 * MaxStates)
            result == GetImpl(World, Last.h)
        IN \A k \in 0 .. MaxPow :
               AcceptWeight(result, k, 2 * MaxPow + 1) =
                   IF k = 0 /\ Last.type = CLOSURE_PLUS THEN Zero
                   ELSE Power(weight, k)

\* A plus closure of an automaton that accepts exactly a with weight 4, the
\* weight 2 of its arc times its final weight 2.
C5_Witness ==
    /\ Called("Closure") /\ Last.type = CLOSURE_PLUS
    /\ AcceptsExactlyA(GetImpl(before, Last.h))
    /\ AcceptWeight(GetImpl(before, Last.h), 1, 2 * MaxStates) = 4
    /\ AcceptWeight(GetImpl(World, Last.h), 2, 2 * MaxPow + 1) = 8

\* C6: the closure of the automaton without states has, under CLOSURE_PLUS,
\* no start and accepts nothing; under CLOSURE_STAR it has the one state 0,
\* which is the start, final with weight One and without arcs, so that it
\* accepts the empty string and nothing else.
C6_ClosureOfEmpty ==
    (Called("Closure") /\ NumStates(before, Last.h) = 0) =>
        LET h == Last.h
            result == GetImpl(World, Last.h)
        IN IF Last.type = CLOSURE_PLUS
           THEN /\ Start(World, h) = kNoStateId
                /\ \A s \in StateIds(World, h) : Final(World, h, s) = Zero
                /\ \A k \in 0 .. MaxPow : AcceptWeight(result, k, 2 * MaxPow + 1) = Zero
           ELSE /\ NumStates(World, h) = 1
                /\ Start(World, h) = 0
                /\ Final(World, h, 0) = One
                /\ Arcs(World, h, 0) = <<>>
                /\ AcceptWeight(result, 0, 2 * MaxPow + 1) = One
                /\ \A k \in 1 .. MaxPow : AcceptWeight(result, k, 2 * MaxPow + 1) = Zero

\* A star closure of the automaton without states.
C6_Witness ==
    /\ Called("Closure") /\ Last.type = CLOSURE_STAR
    /\ NumStates(before, Last.h) = 0 /\ Start(before, Last.h) = kNoStateId
    /\ NumStates(World, Last.h) = 1

\* The image of an arc under inversion: the labels change places.
Exchanged(arc) ==
    [ilabel |-> arc.olabel, olabel |-> arc.ilabel, weight |-> arc.weight,
     nextstate |-> arc.nextstate]

\* C7: Invert keeps the state count, the start state, every final weight and
\* every arc count; the arc at each position has its two labels exchanged and
\* its weight and destination unchanged.
C7_InvertRelabelsOnly ==
    Called("Invert") =>
        LET h == Last.h
        IN /\ NumStates(World, h) = NumStates(before, h)
           /\ Start(World, h) = Start(before, h)
           /\ \A s \in StateIds(before, h) :
                  /\ Final(World, h, s) = Final(before, h, s)
                  /\ NumArcs(World, h, s) = NumArcs(before, h, s)
                  /\ \A i \in DOMAIN Arcs(before, h, s) :
                         Arcs(World, h, s)[i] = Exchanged(Arcs(before, h, s)[i])

\* An inversion of an automaton with a final state that holds two different
\* arcs, the first one with different labels.
C7_Witness ==
    /\ Called("Invert")
    /\ \E s \in StateIds(before, Last.h) :
           /\ NumArcs(before, Last.h, s) = 2
           /\ Final(before, Last.h, s) # Zero
           /\ Arcs(before, Last.h, s)[1] # Arcs(before, Last.h, s)[2]
           /\ Arcs(before, Last.h, s)[1].ilabel # Arcs(before, Last.h, s)[1].olabel
           /\ Arcs(World, Last.h, s)[1] # Arcs(before, Last.h, s)[1]

\* C8: after Invert the input table is the former output table and the output
\* table the former input table (an absent one stays absent on the other
\* side); the tables of an InvertFst are the exchanged tables its source had
\* when it was constructed, in every later state.
C8_InvertExchangesSymbols ==
    /\ Called("Invert") =>
           /\ InputSymbols(World, Last.h) = OutputSymbols(before, Last.h)
           /\ OutputSymbols(World, Last.h) = InputSymbols(before, Last.h)
    /\ \A i \in DOMAIN views :
           /\ ViewInputSymbols(views[i]) = views[i].source.osymbols
           /\ ViewOutputSymbols(views[i]) = views[i].source.isymbols

\* An InvertFst made of a source with an input table and no output table,
\* whose source handle then got another input table.
C8_Witness ==
    /\ Len(calls) = 2 /\ calls[1].op = "InvertFst" /\ Last.op = "SetInputSymbols"
    /\ Len(views) = 1
    /\ views[1].source.isymbols = "syms_x" /\ views[1].source.osymbols = NoSymbols
    /\ ViewInputSymbols(views[1]) = NoSymbols
    /\ InputSymbols(World, Last.h) = "syms_y"

\* C9: two inversions through the same handle restore the states, the arcs
\* (labels, weights, destinations), the final weights, the start state and
\* both symbol tables.
C9_InvertInvolution ==
    (Len(calls) = 2 /\ calls[1].op = "Invert" /\ calls[2].op = "Invert"
        /\ calls[1].h = calls[2].h) =>
            View(World, Last.h) = View(first, Last.h)

\* Two inversions of an automaton with arcs of different labels, an input
\* table and no output table.
C9_Witness ==
    /\ Len(calls) = 2 /\ calls[1].op = "Invert" /\ calls[2].op = "Invert"
    /\ View(before, 1) # View(first, 1)
    /\ InputSymbols(first, 1) = "syms_x" /\ OutputSymbols(first, 1) = NoSymbols
    /\ \E s \in StateIds(first, 1) : \E i \in DOMAIN Arcs(first, 1, s) :
           Arcs(first, 1, s)[i].ilabel # Arcs(first, 1, s)[i].olabel

\* C10: when SetProperties(props, mask) is called through a handle whose store
\* is shared and some bit of mask within kExtrinsicProperties differs between
\* the store and props, the handle gets a store of its own and the shared one
\* is left as it was; in every case the extrinsic bits seen through the other
\* handles are the same after the call as before.
C10_SetPropertiesExtrinsic ==
    Called("SetProperties") =>
        LET h == Last.h
            exprops == kExtrinsicProperties \cap Last.mask
            differs == Properties(before, h, exprops) # (Last.props \cap exprops)
        IN /\ (differs /\ ~Unique(before, h)) =>
                  /\ impl[h] \notin DOMAIN before.store
                  /\ store[before.impl[h]] = before.store[before.impl[h]]
                  /\ Properties(World, h, Last.mask) = Last.props \cap Last.mask
           /\ \A g \in DOMAIN before.impl \ {h} :
                  Properties(World, g, kExtrinsicProperties) =
                      Properties(before, g, kExtrinsicProperties)

\* SetProperties cleared kError through handle 1 of a store that had the bit
\* set and was shared with handle 2.
C10_Witness ==
    /\ Called("SetProperties") /\ Last.h = 1
    /\ DOMAIN before.impl = {1, 2} /\ before.impl[1] = before.impl[2]
    /\ kError \in Last.mask /\ kError \notin Last.props
    /\ Properties(before, 1, {kError}) = {kError}
    /\ Properties(World, 1, {kError}) = {}
    /\ Properties(World, 2, {kError}) = {kError}

\* C11: during the lifetime of a MutableArcIterator the store of its handle
\* is replaced by a private copy at most once, and never by a call made after
\* the construction (SetValue, Next, Seek, Reset), however many are made.
C11_CursorPrivatizesOnce ==
    cursor.live => cursor.copies <= 1 /\ cursor.late = 0

\* A cursor made on a shared store (one copy) wrote an arc with SetValue while
\* its handle's store was shared again, after other calls on the cursor.
C11_Witness ==
    /\ cursor.live /\ cursor.copies = 1 /\ cursor.last = "SetValue"
    /\ cursor.steps = MaxCursorOps
    /\ before.impl = impl /\ cursor.h \in DOMAIN impl
    /\ DOMAIN before.store = DOMAIN store
    /\ ~Unique(before, cursor.h)
    /\ Arcs(World, cursor.h, cursor.s) # Arcs(before, cursor.h, cursor.s)

InSteps(step, steps) == \E i \in DOMAIN steps : steps[i] = step

\* C12: the stream form of Read returns nullptr, without aborting, when the
\* header does not parse (none being supplied), when the header lacks kMutable,
\* when the registry has no reader for the header's type, and when the reader
\* fails; it returns an automaton exactly when all four checks pass; and the
\* registry is not consulted for a header that lacks kMutable.
C12_ReadStreamAbsentOnError ==
    (io.op = "read" /\ io.call.form = "stream") =>
        LET parse == io.call.header = NoHeader
            hdr == IF parse THEN io.file.strm.hdr ELSE io.call.header
            parsed == ~parse \/ io.file.strm.hdr_ok
            mutable == kMutable \in hdr.properties
            known == hdr.fst_type \in FstTypes
            read == io.file.strm.body_ok
        IN /\ ~io.result.aborted
           /\ (io.result.fst # nullptr) <=> (parsed /\ mutable /\ known /\ read)
           /\ (parsed /\ ~mutable) => ~InSteps("GetReader", io.result.steps)

\* A stream read that stopped at the capability check of a parsed header whose
\* type the registry does not know either.
C12_Witness ==
    /\ io.op = "read" /\ io.call.form = "stream" /\ io.call.header = NoHeader
    /\ io.file.strm.hdr_ok /\ io.file.strm.body_ok
    /\ io.file.strm.hdr.fst_type = "unknown"
    /\ kMutable \notin io.file.strm.hdr.properties
    /\ io.result.fst = nullptr /\ io.result.log = <<"Not a MutableFst">>

\* C13: the file form of Read returns nullptr when the file cannot be opened,
\* when the underlying read fails, when the conversion fails and when the
\* conversion gives an automaton that is not mutable; every automaton it
\* returns has the kMutable capability.
C13_ReadFileAbsentOnError ==
    (io.op = "read" /\ io.call.form = "file") =>
        LET file == io.file
            hdr == file.strm.hdr
            opened == file.source = "" \/ file.can_open
            read == /\ file.strm.hdr_ok /\ file.strm.body_ok
                    /\ hdr.fst_type \in FstTypes
                    /\ io.call.convert \/ kMutable \in hdr.properties
            converts == io.call.convert /\ kMutable \notin hdr.properties
            converted == Convert(hdr, io.call.convert_type)
        IN /\ ~opened => io.result.fst = nullptr
           /\ ~read => io.result.fst = nullptr
           /\ (converts /\ converted = nullptr) => io.result.fst = nullptr
           /\ (converts /\ converted # nullptr /\ kMutable \notin converted.properties)
                  => io.result.fst = nullptr
           /\ io.result.fst # nullptr => kMutable \in io.result.fst.properties

\* The configurations the constructors reject: one bracket without the other;
\* flags with a separator that is not one character or brackets that are
\* neither none nor two characters.
InvalidArgs(args) ==
    IF args.form = "explicit"
    THEN (args.parentheses[1] = NUL) # (args.parentheses[2] = NUL)
    ELSE \/ Len(args.separator) # 1
         \/ args.parentheses # <<>> /\ Len(args.parentheses) # 2

BeginEndOps == {"WriteBegin", "WriteEnd", "ReadBegin", "ReadEnd"}

\* C14: a reader or writer constructed with an invalid configuration records
\* the error and leaves its stream failed; until the caller clears the stream,
\* every begin or end call emits nothing and consumes nothing and the stream
\* stays failed; a valid configuration leaves the stream as it was.
C14_InvalidConfigTaintsStream ==
    /\ (io.op = "ctor" /\ InvalidArgs(io.args)) =>
           io.r.error_ /\ StreamFail(io.r.strm)
    /\ (io.op = "ctor" /\ ~InvalidArgs(io.args)) =>
           ~io.r.error_ /\ io.r.strm = io.strm0
    /\ (io.op \in BeginEndOps /\ InvalidArgs(io.args) /\ io.resets = 0) =>
           /\ io.r.strm.text = io.strm0.text
           /\ io.r.strm.pos = 0
           /\ StreamFail(io.r.strm)

\* A writer constructed with an open bracket and no close bracket was asked
\* to begin and to end a weight and wrote nothing.
C14_Witness ==
    /\ io.op = "WriteEnd" /\ io.steps = 2 /\ io.resets = 0
    /\ io.prev.strm.text = <<>>
    /\ io.args.form = "explicit" /\ io.args.parentheses = <<"(", NUL>>
    /\ io.strm0.state = {}
    /\ io.r.strm.text = <<>> /\ StreamFail(io.r.strm)

CharAt(text, i) == IF i <= Len(text) THEN text[i] ELSE EOF

\* The number of whitespace characters of text that follow its first pos ones.
RECURSIVE LeadingSpaces(_, _)
LeadingSpaces(text, pos) ==
    IF isspace(CharAt(text, pos + 1)) THEN 1 + LeadingSpaces(text, pos + 1) ELSE 0

Min(a, b) == IF a < b THEN a ELSE b

\* What ReadBegin consumed of a good stream: the leading whitespace and the
\* first other character; with brackets and that character the open bracket,
\* the depth is one more and the lookahead is the next character; with
\* brackets and another character the stream is bad and the depth unchanged.
ReadBeginEffect(rd, old) ==
    LET n == LeadingSpaces(old.strm.text, old.strm.pos)
        c == CharAt(old.strm.text, old.strm.pos + n + 1)
        len == Len(old.strm.text)
    IN IF old.open_paren_ = NUL
       THEN rd.strm.pos = Min(len, old.strm.pos + n + 1) /\ rd.c_ = c
       ELSE IF c = old.open_paren_
       THEN /\ rd.depth_ = old.depth_ + 1
            /\ rd.strm.pos = Min(len, old.strm.pos + n + 2)
            /\ rd.c_ = CharAt(old.strm.text, old.strm.pos + n + 2)
       ELSE /\ rd.depth_ = old.depth_
            /\ rd.strm.pos = Min(len, old.strm.pos + n + 1)
            /\ StreamFail(rd.strm)

\* C15 as amended: ReadBegin on a good stream consumes the leading whitespace
\* and the first other character and treats the brackets as above; without
\* brackets it leaves the depth unchanged and never sets badbit, and the
\* stream ends failed exactly when it held no character but whitespace (get()
\* then sets eofbit and failbit). On a stream that is not good it consumes
\* nothing.
C15_ReadBeginAmended ==
    io.op = "ReadBegin" =>
        /\ io.r.strm.text = io.prev.strm.text
        /\ io.prev.strm.state = {} =>
               /\ ReadBeginEffect(io.r, io.prev)
               /\ io.prev.open_paren_ = NUL =>
                      /\ io.r.depth_ = io.prev.depth_
                      /\ badbit \notin io.r.strm.state
                      /\ StreamFail(io.r.strm) <=> io.r.c_ = EOF
        /\ io.prev.strm.state # {} =>
               /\ io.r.strm.pos = io.prev.strm.pos
               /\ io.r.depth_ = io.prev.depth_
               /\ StreamFail(io.r.strm)

\* ReadBegin without brackets on a good stream that holds one blank: the
\* blank is consumed and the stream is failed, at its end and not bad.
C15_Witness ==
    /\ io.op = "ReadBegin" /\ io.prev.open_paren_ = NUL /\ ~io.prev.error_
    /\ io.prev.strm = MakeStream(<<" ">>, {})
    /\ io.r.strm.pos = 1 /\ io.r.strm.state = {eofbit, failbit}

\* C15 as stated: as above, but without brackets the call never fails the
\* stream.
C15_ReadBeginNeverFailsUnbracketed ==
    (io.op = "ReadBegin" /\ io.prev.strm.state = {}) =>
        /\ ReadBeginEffect(io.r, io.prev)
        /\ io.prev.open_paren_ = NUL =>
               io.r.depth_ = io.prev.depth_ /\ ~StreamFail(io.r.strm)

\* C16: ReadEnd makes the stream bad when the lookahead is neither the end of
\* input nor whitespace, and only then; otherwise the stream is as it was; the
\* lookahead, the depth and the position are unchanged in both cases.
C16_ReadEndRejectsGarbage ==
    io.op = "ReadEnd" =>
        /\ (io.prev.c_ # EOF /\ ~isspace(io.prev.c_)) =>
               io.r.strm = [io.prev.strm EXCEPT !.state = {badbit}]
        /\ (io.prev.c_ = EOF \/ isspace(io.prev.c_)) => io.r.strm = io.prev.strm
        /\ io.r.c_ = io.prev.c_ /\ io.r.depth_ = io.prev.depth_

\* ReadEnd with the lookahead 7 on a stream that was good: the stream is bad.
C16_Witness ==
    /\ io.op = "ReadEnd" /\ io.prev.c_ = "7" /\ io.prev.strm.state = {}
    /\ io.r.strm.state = {badbit} /\ io.r.c_ = "7"

\* The number of occurrences of c in text.
RECURSIVE Count(_, _)
Count(text, c) ==
    IF text = <<>> THEN 0
    ELSE (IF Head(text) = c THEN 1 ELSE 0) + Count(Tail(text), c)

\* The characters a begin or end call appended for bracket c.
Emitted(c) == IF c # NUL THEN <<c>> ELSE <<>>

\* C17: on a good stream WriteBegin appends exactly the open bracket when
\* brackets are configured and nothing otherwise, and WriteEnd the same with
\* the close bracket; the output of a well-configured writer that made only
\* begin and end calls holds as many open brackets more than close brackets
\* as weights are begun and not yet ended, and nothing else.
C17_WriterBrackets ==
    /\ (io.op = "WriteBegin" /\ io.prev.strm.state = {}) =>
           io.r.strm = [io.prev.strm EXCEPT !.text = @ \o Emitted(io.prev.open_paren_)]
    /\ (io.op = "WriteEnd" /\ io.prev.strm.state = {}) =>
           io.r.strm = [io.prev.strm EXCEPT !.text = @ \o Emitted(io.prev.close_paren_)]
    /\ (io.op \in {"WriteBegin", "WriteEnd"} /\ ~io.r.error_ /\ io.strm0.state = {}) =>
           IF io.r.open_paren_ = NUL THEN io.r.strm.text = <<>>
           ELSE /\ Count(io.r.strm.text, io.r.open_paren_)
                       - Count(io.r.strm.text, io.r.close_paren_) = io.nest
                /\ Count(io.r.strm.text, io.r.open_paren_)
                       + Count(io.r.strm.text, io.r.close_paren_) = Len(io.r.strm.text)

\* A writer with brackets began two weights and ended the inner one.
C17_Witness ==
    /\ io.op = "WriteEnd" /\ io.nest = 1 /\ ~io.r.error_
    /\ io.r.strm.text = <<"(", "(", ")">> /\ io.r.strm.state = {}

Rank(s, d) == Cardinality({x \in 0 .. s - 1 : x \notin d})

\* The arcs of arcs whose destination is not in d, in order, each with the
\* new id of its destination.
Compacted(arcs, d) ==
    LET kept == SelectSeq(arcs, LAMBDA a : a.nextstate \notin d)
    IN [i \in DOMAIN kept |-> [kept[i] EXCEPT !.nextstate = Rank(@, d)]]

\* C19: DeleteStates(d) on an automaton of n states leaves n - |d| states;
\* the surviving state s has the id Rank(s, d), its final weight and its arcs
\* to surviving states, in order, each redirected to the new id of its
\* destination; so every arc leads to a state of the result.
C19_DeleteStatesCompacts ==
    Called("DeleteStates") =>
        LET h == Last.h
            d == Last.props
            old == StateIds(before, h)
        IN /\ NumStates(World, h) = NumStates(before, h) - Cardinality(d)
           /\ \A s \in old \ d :
                  /\ Rank(s, d) \in StateIds(World, h)
                  /\ Final(World, h, Rank(s, d)) = Final(before, h, s)
                  /\ Arcs(World, h, Rank(s, d)) = Compacted(Arcs(before, h, s), d)
           /\ \A s \in StateIds(World, h) : \A i \in DOMAIN Arcs(World, h, s) :
                  Arcs(World, h, s)[i].nextstate \in StateIds(World, h)

\* The middle state of the dense automaton was deleted: state 2 became
\* state 1, lost its arc to the deleted state and kept the two others.
C19_Witness ==
    /\ Called("DeleteStates") /\ Last.props = {1}
    /\ NumStates(before, Last.h) = 3 /\ NumStates(World, Last.h) = 2
    /\ NumArcs(before, Last.h, 2) = 3
    /\ Arcs(World, Last.h, 1) = <<MakeArc(1, 2, One, 1), MakeArc(1, 2, 2, 0)>>

\* C20: DeleteStates() leaves the calling handle with no states, no start
\* state and the symbol tables it had, whether its store was shared or not;
\* when it was shared the other handles keep their states, arcs, start state
\* and symbol tables.
C20_DeleteAllStatesSharedOrNot ==
    Called("DeleteAllStates") =>
        LET h == Last.h
        IN /\ View(World, h) =
                  [start |-> kNoStateId, states |-> <<>>,
                   isymbols |-> InputSymbols(before, h),
                   osymbols |-> OutputSymbols(before, h)]
           /\ \A g \in DOMAIN before.impl \ {h} :
                  g \in DOMAIN impl /\ View(World, g) = View(before, g)

\* DeleteStates() through one of two handles sharing the dense automaton.
C20_Witness ==
    /\ Called("DeleteAllStates") /\ Last.h = 1
    /\ DOMAIN before.impl = {1, 2} /\ before.impl[1] = before.impl[2]
    /\ NumStates(before, 1) = 3 /\ NumStates(World, 1) = 0
    /\ NumStates(World, 2) = 3
    /\ InputSymbols(World, 1) = "syms_x" /\ OutputSymbols(World, 1) = "syms_y"

\* The tables seen through handle h when the caller's own table holds t.
Tables(w, h, t) ==
    [isymbols |-> TableAt(InputSymbols(w, h), t),
     osymbols |-> TableAt(OutputSymbols(w, h), t)]

Cached(v) == DOMAIN v.lazy.cache

\* C22: in a lazy closure or inversion view an id is cached exactly when a
\* final weight or arc query has been made for it; no step (a query, a Copy
\* of the view, a call on the source's own handle) takes an id out of the
\* cache or changes what the cache holds for it; and all the answers a view
\* gives for the arcs of an id are equal, and so are all those for its final
\* weight.
C22_LazyCacheOneWay ==
    [][\A i \in DOMAIN views :
           /\ i \in DOMAIN views'
           /\ \A s \in Cached(views[i]) :
                  s \in Cached(views'[i])
                  /\ views'[i].lazy.cache[s] = views[i].lazy.cache[s]
           /\ Cached(views'[i]) = {a.s : a \in views'[i].lazy.asked}
           /\ views'[i].lazy.queries > views[i].lazy.queries =>
                  /\ views'[i].lazy.last.s \in Cached(views'[i])
                  /\ Cached(views'[i]) = Cached(views[i]) \cup {views'[i].lazy.last.s}
           /\ \A a \in views'[i].lazy.asked : \A b \in views'[i].lazy.asked :
                  (a.s = b.s /\ a.what = b.what) => a.value = b.value]_vars

\* An inversion view answered a final weight query for a state, the caller
\* then changed that state's final weight through the source's handle, and the
\* view, copied in between, answered the same query and an arc query again.
C22_Witness ==
    /\ Len(views) = 2 /\ views[1].type = "InvertMapper"
    /\ views[1].lazy.queries = MaxViewOps
    /\ views[1].lazy.last.what = "Arcs"
    /\ Cardinality(views[1].lazy.asked) = 2
    /\ Cardinality(Cached(views[1])) = 1
    /\ Called("SetFinal")
    /\ \E s \in Cached(views[1]) :
           /\ s \in StateIds(World, Last.h)
           /\ Final(World, Last.h, s) # views[1].lazy.cache[s].final
           /\ views[1].lazy.cache[s].arcs # <<>>

\* The position in calls of the Copy that made handle b (0: b is a handle of
\* the initial state).
CreatedAt(b) ==
    LET made == {k \in DOMAIN calls : calls[k].op = "Copy" /\ calls[k].props = {b}}
    IN IF made = {} THEN 0 ELSE CHOOSE k \in made : \A j \in made : j <= k

\* No mutating call was made through a or b since b was made.
Unmutated(a, b) ==
    \A k \in DOMAIN calls :
        k > CreatedAt(b) => ~(calls[k].h \in {a, b} /\ calls[k].op \in C2Mutators)

\* C23: when b was made by a.Copy(safe = false) and no mutating call has been
\* made through a or b since, the two handles reference the same backing
\* store and report the same state count and, for every state, the same arc
\* count and the same final weight.
C23_CheapCopyShares ==
    \A a \in DOMAIN impl : \A b \in DOMAIN impl :
        (origin[b] = [src |-> a, safe |-> FALSE] /\ Unmutated(a, b)) =>
            /\ impl[a] = impl[b]
            /\ NumStates(World, a) = NumStates(World, b)
            /\ \A s \in StateIds(World, a) :
                   /\ NumArcs(World, a, s) = NumArcs(World, b, s)
                   /\ Final(World, a, s) = Final(World, b, s)

\* Handle 1 got an arc and was then copied with safe = false; the copy sees
\* the two states and the arc.
C23_Witness ==
    /\ Len(calls) = 2 /\ calls[1].op = "AddArc" /\ calls[1].h = 1
    /\ Last.op = "Copy" /\ Last.h = 1 /\ Last.props = {2}
    /\ 2 \in DOMAIN impl /\ origin[2] = [src |-> 1, safe |-> FALSE]
    /\ NumStates(World, 2) = 2
    /\ \E s \in StateIds(World, 2) : NumArcs(World, 2, s) = 1 /\ Final(World, 2, s) # Zero

\* The handles other than h that shared h's store before the last call.
Sharers(h) == {g \in DOMAIN before.impl \ {h} : before.impl[g] = before.impl[h]}

\* C24 as amended: after SetProperties(props, mask) through a handle of a
\* shared store, every other handle that shared the store reads the same
\* extrinsic bits as before; it reads the same bitset as before when an
\* extrinsic bit of mask differed from props, and otherwise the bitset with
\* the bits of mask taken from props.
C24_SetPropertiesAmended ==
    Called("SetProperties") =>
        LET h == Last.h
            exprops == kExtrinsicProperties \cap Last.mask
            differs == Properties(before, h, exprops) # (Last.props \cap exprops)
        IN \A g \in Sharers(h) :
               /\ Properties(World, g, kExtrinsicProperties) =
                      Properties(before, g, kExtrinsicProperties)
               /\ Properties(World, g, kFstProperties) =
                      IF differs THEN Properties(before, g, kFstProperties)
                      ELSE (Properties(before, g, kFstProperties) \ Last.mask)
                           \cup (Last.props \cap Last.mask)

\* SetProperties cleared kAcceptor through handle 1 of a store shared with
\* handle 2, and handle 2 reads the bit cleared.
C24_Witness ==
    /\ Called("SetProperties") /\ Last.h = 1 /\ 2 \in Sharers(1)
    /\ kAcceptor \in Last.mask /\ kAcceptor \notin Last.props
    /\ kAcceptor \in Properties(before, 2, kFstProperties)
    /\ kAcceptor \notin Properties(World, 2, kFstProperties)
    /\ impl[1] = impl[2]

\* C24 as stated: after SetProperties through a handle of a shared store,
\* every other handle that shared the store reads the same bitset as before,
\* bit for bit.
C24_SetPropertiesAllBits ==
    Called("SetProperties") =>
        \A g \in Sharers(Last.h) :
            Properties(World, g, kFstProperties) = Properties(before, g, kFstProperties)

\* The last step was a SetValue on the cursor (it leaves every handle's
\* store reference as it was, which no Copy or destructor does).
JustSetValue == cursor.live /\ cursor.last = "SetValue" /\ before.impl = impl

\* C25: a SetValue through the cursor leaves the arcs seen through every
\* other handle as they were, also through a handle made by Copy(safe = false)
\* after the cursor was constructed.
C25_SetValueIsolated ==
    JustSetValue =>
        \A g \in DOMAIN impl \ {cursor.h} :
            \A s \in StateIds(before, g) : Arcs(World, g, s) = Arcs(before, g, s)

\* Every arc seen through h leads to a state of the automaton.
WellFormed(w, h) ==
    \A s \in StateIds(w, h) : \A i \in DOMAIN Arcs(w, h, s) :
        Arcs(w, h, s)[i].nextstate \in StateIds(w, h)

\* C26: when every arc's destination was an existing state before Closure,
\* so it is after Closure, for both variants and for every automaton, one
\* with final states and no start state included.
C26_ClosureWellFormed ==
    (Called("Closure") /\ WellFormed(before, Last.h)) => WellFormed(World, Last.h)

\* Sequence p is the beginning of sequence q.
IsPrefix(p, q) == Len(p) <= Len(q) /\ SubSeq(q, 1, Len(p)) = p

\* C27: Closure leaves every state that existed with its final weight and
\* with its arcs, unchanged and at their positions, as the beginning of its
\* arc list; it leaves both symbol tables; and it adds no state under
\* CLOSURE_PLUS and exactly one, after the existing ones, under CLOSURE_STAR.
C27_ClosureFrame ==
    Called("Closure") =>
        LET h == Last.h
        IN /\ \A s \in StateIds(before, h) :
                  /\ s \in StateIds(World, h)
                  /\ Final(World, h, s) = Final(before, h, s)
                  /\ IsPrefix(Arcs(before, h, s), Arcs(World, h, s))
           /\ InputSymbols(World, h) = InputSymbols(before, h)
           /\ OutputSymbols(World, h) = OutputSymbols(before, h)
           /\ NumStates(World, h) =
                  NumStates(before, h) + (IF Last.type = CLOSURE_STAR THEN 1 ELSE 0)

\* A star closure of an automaton with an input table and a final state that
\* had two arcs and got a third.
C27_Witness ==
    /\ Called("Closure") /\ Last.type = CLOSURE_STAR
    /\ InputSymbols(before, Last.h) = "syms_x"
    /\ \E s \in StateIds(before, Last.h) :
           /\ Final(before, Last.h, s) = 2
           /\ NumArcs(before, Last.h, s) = 2
           /\ NumArcs(World, Last.h, s) = 3

\* The heap of one handle on automaton m with the cached bits props.
WithBits(m, props) == [impl |-> <<1>>, store |-> <<[m EXCEPT !.properties = props]>>]

\* C28: the bits Closure leaves are those it leaves, for the same variant, on
\* every other automaton that had the same cached bits before the call,
\* whatever its states and arcs.
C28_ClosureBitsFunction ==
    Called("Closure") =>
        LET props == Properties(before, Last.h, kFstProperties)
        IN \A m \in Seeds \cup {DenseImpl} :
               Properties(World, Last.h, kFstProperties) =
                   Properties(Closure(WithBits(m, props), 1, Last.type), 1, kFstProperties)

\* A star closure of the dense automaton with kError and kILabelSorted
\* cached: the arcs it added cleared kILabelSorted, kError stayed.
C28_Witness ==
    /\ Called("Closure") /\ Last.type = CLOSURE_STAR
    /\ NumStates(before, Last.h) = 3
    /\ {kError, kILabelSorted} \subseteq Properties(before, Last.h, kFstProperties)
    /\ kError \in Properties(World, Last.h, kFstProperties)
    /\ kILabelSorted \notin Properties(World, Last.h, kFstProperties)

\* C29 (as amended): under every interleaving of the two threads' steps, the
\* write of a call that made the mutate check lands on a store no other
\* handle references.
C29_CheckedWritesPrivate ==
    \A t \in Threads :
        (threads[t].done > 0 /\ threads[t].pc = "idle" /\ threads[t].checked)
            => threads[t].landed = {}

\* Both threads found the store shared before either switched, both copied,
\* and both have written: each handle has a store of its own.
C29_Witness ==
    /\ \A t \in Threads :
           /\ threads[t].done = 1 /\ threads[t].pc = "idle"
           /\ threads[t].checked /\ threads[t].op = "AddState"
    /\ impl[1] # impl[2]
    /\ \A t \in Threads : ImplNumStates(store[impl[t]]) = ImplNumStates(first.store[1]) + 1

\* C29: no write, a SetProperties write included, lands on a store another
\* handle still references.
C29_NoWriteOnSharedStore == \A t \in Threads : threads[t].landed = {}

\* The automaton view v exposes over the heap w, state by state, equals a.
ViewExposes(w, v, a) ==
    /\ Cardinality(ViewStateIds(w, v)) = Len(a.states)
    /\ ViewStart(w, v) = a.start
    /\ \A s \in ViewStateIds(w, v) : ViewExpand(w, v, s) = a.states[s + 1]
    /\ ViewInputSymbols(v) = a.isymbols
    /\ ViewOutputSymbols(v) = a.osymbols

\* C30: what Invert(ifst, ofst) leaves in ofst is what Invert(fst) leaves in
\* a copy of the source (safe or not) and what an InvertFst of the source
\* exposes: states, start state, final weights, arcs in order and both
\* tables; and after Invert(ifst, ofst) and after new InvertFst(fst) the
\* source reads as before.
C30_InversionsAgree ==
    /\ Called("InvertInto") =>
           LET h == Last.h
               g == CHOOSE x \in Last.props : TRUE
               lazy == CopyFst(before, h, g, FALSE, FALSE)
           IN /\ \A safe \in BOOLEAN :
                     View(World, g) = View(Invert(CopyFst(before, h, g, safe, safe), g), g)
              /\ ViewExposes(lazy, InvertFst(before, h, g), View(World, g))
              /\ View(World, h) = View(before, h)
    /\ Called("InvertFst") =>
           /\ View(World, Last.h) = View(before, Last.h)
           /\ ViewExposes(World, views[1],
                          View(InvertInto(NewVectorFst(before, views[1].fst),
                                          Last.h, views[1].fst), views[1].fst))

\* Invert(ifst, ofst) of a two-state source with a start state, an arc whose
\* labels differ and one table, into a cheap copy of the source: ofst holds
\* the arc with its labels exchanged and the table on the other side.
C30_Witness ==
    /\ Called("InvertInto") /\ Last.type = "copy"
    /\ NumStates(before, Last.h) = 2 /\ Start(before, Last.h) = 0
    /\ InputSymbols(before, Last.h) # NoSymbols
    /\ OutputSymbols(before, Last.h) = NoSymbols
    /\ \E s \in StateIds(before, Last.h) : \E i \in 1 .. NumArcs(before, Last.h, s) :
           /\ Arcs(before, Last.h, s)[i].ilabel # Arcs(before, Last.h, s)[i].olabel
           /\ Arcs(World, 2, s)[i].ilabel = Arcs(before, Last.h, s)[i].olabel
    /\ OutputSymbols(World, 2) = InputSymbols(before, Last.h)
    /\ impl[1] # impl[2]

\* C31: every call of ReadBegin returns, and its loop makes at most one read
\* more than the stream has characters, whatever the text and the state of
\* the stream.
C31_ReadBeginTerminates ==
    /\ <>(io.pc = "done")
    /\ [](io.reads <= Len(io.r.strm.text) + 1)

\* ReadBegin has returned from a good stream of nothing but white space: it
\* read every character and then the end of input once, and left the reader
\* as the whole call does.
C31_Witness ==
    /\ io.op = "ReadBeginSteps" /\ io.pc = "done"
    /\ io.r0.strm.state = {} /\ Len(io.r0.strm.text) = 3
    /\ \A i \in 1 .. 3 : isspace(io.r0.strm.text[i])
    /\ io.reads = 4 /\ io.r.c_ = EOF
    /\ io.r = ReadBegin(io.r0)
====
